---- MODULE Spec2Model ----
(***************************************************************************)
(* A model of scripts/inspect-docx.py: the command extractor               *)
(* (extract_paras, find_commands) and the structural comparison of a       *)
(* template document with a rendered output document (cmd_compare), and    *)
(* the single-document commands cmd_splits, cmd_overview and cmd_loops;    *)
(* and of scripts/tag-template.py: merge_split_runs, set_cell_text,        *)
(* clone_row_as_command and the restructuring of the loop tables T63, T68  *)
(* and T55 into a FOR row, a data row and an END-FOR row.                  *)
(*                                                                         *)
(* Text is a sequence of one-character strings, so that prefix tests,      *)
(* trimming, slicing and the command regex are computed as the code        *)
(* computes them.  An XML element is a record of the attributes and        *)
(* children the code reads; an absent attribute is NoAttr, an absent       *)
(* child element is the empty tuple.                                       *)
(***************************************************************************)
EXTENDS Integers, Sequences, FiniteSets, TLC

VARIABLES
    action,           \* argv[0], the key of DISPATCH
    tplFile,          \* the file at tpl_path
    outFile,          \* the file at out_path (compare) or path (the others)
    pc,               \* position of the dispatched command
    tpl_tables,       \* list(tpl_root.iter(w:tbl))
    out_tables,       \* list(out_root.iter(w:tbl))
    tpl_paras,        \* extract_paras(tpl_path)
    out_paras,        \* extract_paras(out_path)
    tpl_cmds,         \* find_commands(tpl_path)
    out_cmds,         \* find_commands(out_path)
    out_fn_refs,      \* _footnote_refs(out_root)
    issues,           \* the issue list
    matched,          \* matched template tables
    families,         \* grid groups reported as loop-expansion families
    row_issues_count, \* rows whose span sum differs from the grid
    printed,          \* the lines written to stdout, in order
    stack,            \* cmd_loops: the open loops, as indices into loops
    loops,            \* cmd_loops: the loops found so far
    pos,              \* cmd_loops: the commands processed so far
    tagIn,            \* tag-template.py: the function run and its arguments
    body_paras,       \* merge_split_runs: the paragraphs of body
    para_i,           \* merge_split_runs: the paragraphs visited so far
    run_texts,        \* merge_split_runs: the (run, text) pairs
    scan_i,           \* merge_split_runs: i
    merge_count,      \* merge_split_runs: count
    returned,         \* merge_split_runs: the counts returned so far
    new_row,          \* clone_row_as_command: the rows returned so far
    t_children,       \* the loop table: list(t63), list(t68) or list(t55)
    tagged            \* the loop table: for_row, data_row and endfor_row

vars == <<action, tplFile, outFile, pc, tpl_tables, out_tables, tpl_paras, out_paras,
          tpl_cmds, out_cmds, out_fn_refs, issues, matched, families,
          row_issues_count, printed,
          stack, loops, pos,
          tagIn, body_paras, para_i, run_texts, scan_i, merge_count, returned,
          new_row, t_children, tagged>>

\* The locals of cmd_loops.
loopVars == <<stack, loops, pos>>

\* The locals of merge_split_runs.
mergeVars == <<body_paras, para_i, run_texts, scan_i, merge_count, returned>>

\* The state of tag-template.py.
tagVars == <<tagIn, mergeVars, new_row, t_children, tagged>>

\* The variables that the commands of inspect-docx.py leave alone.
idle == <<loopVars, tagVars>>

-----------------------------------------------------------------------------
(* Text helpers: Python str operations on sequences of characters.         *)

Min(a, b) == IF a < b THEN a ELSE b

\* s[:n]
Slice(s, n) == SubSeq(s, 1, Min(n, Len(s)))

\* s.startswith(p)
StartsWith(s, p) == Len(s) >= Len(p) /\ SubSeq(s, 1, Len(p)) = p

\* sub in s
Contains(s, sub) ==
    \E i \in 1..(Len(s) - Len(sub) + 1) : SubSeq(s, i, i + Len(sub) - 1) = sub

IsSpace(c) == c \in {" ", "\t", "\n"}

\* s.strip()
Strip(s) ==
    LET keep == {i \in 1..Len(s) : ~IsSpace(s[i])}
    IN  IF keep = {} THEN <<>>
        ELSE LET lo == CHOOSE i \in keep : \A j \in keep : i <= j
                 hi == CHOOSE i \in keep : \A j \in keep : j <= i
             IN  SubSeq(s, lo, hi)

RECURSIVE Concat(_)
\* "".join(parts)
Concat(parts) ==
    IF parts = <<>> THEN <<>> ELSE Head(parts) \o Concat(Tail(parts))

RECURSIVE Join(_, _)
\* sep.join(parts)
Join(sep, parts) ==
    IF parts = <<>> THEN <<>>
    ELSE IF Len(parts) = 1 THEN Head(parts)
    ELSE Head(parts) \o sep \o Join(sep, Tail(parts))

\* Literals of the source.
sFORsp == <<"F", "O", "R", " ">>
sENDFOR == <<"E", "N", "D", "-", "F", "O", "R">>
sIFsp == <<"I", "F", " ">>
sENDIF == <<"E", "N", "D", "-", "I", "F">>
sINSsp == <<"I", "N", "S", " ">>
sDollar == <<"$">>
sBraceFOR == <<"{", "F", "O", "R">>
sBraceDollar == <<"{", "$">>
sEmptyTable ==
    <<"(", "e", "m", "p", "t", "y", " ", "t", "a", "b", "l", "e", ")">>
sPipe == <<" ", "|", " ">>
sDots == <<".", ".", ".">>
sQuestion == <<"?">>

\* Truncation lengths of _table_label.
CellLabelLen == 30
LabelLen == 60

-----------------------------------------------------------------------------
(* XML attribute access.                                                   *)

NoAttr == <<"#absent">>

\* element.get(attr, default)
Get(attr, default) == IF attr = NoAttr THEN default ELSE attr

-----------------------------------------------------------------------------
(* extract_paras and find_commands.                                        *)

\* A body paragraph: its runs' w:t texts that are non-empty.
RunsOf(runTexts) == SelectSeq(runTexts, LAMBDA t : t # <<>>)

\* The paragraph of a table cell (one w:p per cell, one run).
CellParas(cell) == <<[runs |-> RunsOf(<<cell.text>>), tbl |-> TRUE]>>

RECURSIVE RowParas(_)
RowParas(row) ==
    IF row = <<>> THEN <<>> ELSE CellParas(Head(row)) \o RowParas(Tail(row))

RECURSIVE TableParas(_)
TableParas(rows) ==
    IF rows = <<>> THEN <<>>
    ELSE RowParas(Head(rows)) \o TableParas(Tail(rows))

RECURSIVE BodyParas(_)
\* root.iter(w:p): the paragraphs of the body in document order
BodyParas(body) ==
    IF body = <<>> THEN <<>>
    ELSE LET b == Head(body)
         IN  (IF b.kind = "p"
              THEN <<[runs |-> RunsOf(b.runs), tbl |-> FALSE]>>
              ELSE TableParas(b.rows))
             \o BodyParas(Tail(body))

extract_paras(file) ==
    LET ps == BodyParas(file.body)
    IN  [k \in 1..Len(ps) |->
            [i |-> k - 1,
             text |-> Concat(ps[k].runs),
             runs |-> ps[k].runs,
             tbl |-> ps[k].tbl]]

\* The least j > i with s[j] = "}", or 0.
NextClose(s, i) ==
    LET js == {j \in (i + 1)..Len(s) : s[j] = "}"}
    IN  IF js = {} THEN 0 ELSE CHOOSE j \in js : \A k \in js : j <= k

RECURSIVE Finditer(_, _)
\* re.compile(r"\{([^}]+)\}").finditer(s): group(1) of each match from i on
Finditer(s, i) ==
    IF i > Len(s) THEN <<>>
    ELSE IF s[i] # "{" THEN Finditer(s, i + 1)
    ELSE LET j == NextClose(s, i)
         IN  IF j = 0 \/ j = i + 1 THEN Finditer(s, i + 1)
             ELSE <<SubSeq(s, i + 1, j - 1)>> \o Finditer(s, j + 1)

\* The chain with the FOR prefix tested without its trailing space.
CommandType_NoDelimiter(raw) ==
    IF StartsWith(raw, <<"F", "O", "R">>) THEN "FOR"
    ELSE IF StartsWith(raw, sENDFOR) THEN "END-FOR"
    ELSE IF StartsWith(raw, sIFsp) THEN "IF"
    ELSE IF raw = sENDIF THEN "END-IF"
    ELSE IF StartsWith(raw, sINSsp) THEN "INS"
    ELSE "field"

\* The if/elif chain of find_commands.
CommandType(raw) ==
    IF StartsWith(raw, sFORsp) THEN "FOR"
    ELSE IF StartsWith(raw, sENDFOR) THEN "END-FOR"
    ELSE IF StartsWith(raw, sIFsp) THEN "IF"
    ELSE IF raw = sENDIF THEN "END-IF"
    ELSE IF StartsWith(raw, sINSsp) THEN "INS"
    ELSE "field"

\* The commands of a paragraph from the last match to the first.
ParaCommands_Reversed(p) ==
    LET ms == Finditer(p.text, 1)
    IN  [k \in 1..Len(ms) |->
            LET raw == Strip(ms[Len(ms) + 1 - k])
            IN  [para |-> p.i, tbl |-> p.tbl, raw |-> raw,
                 type |-> CommandType(raw)]]

ParaCommands(p) ==
    LET ms == Finditer(p.text, 1)
    IN  [k \in 1..Len(ms) |->
            LET raw == Strip(ms[k])
            IN  [para |-> p.i, tbl |-> p.tbl, raw |-> raw,
                 type |-> CommandType(raw)]]

RECURSIVE CommandsOf(_)
CommandsOf(paras) ==
    IF paras = <<>> THEN <<>>
    ELSE ParaCommands(Head(paras)) \o CommandsOf(Tail(paras))

find_commands(file) == CommandsOf(extract_paras(file))

-----------------------------------------------------------------------------
(* Comparison helpers.                                                     *)

\* root.iter(w:tbl): the tables of the body in document order
TablesOf(body) == SelectSeq(body, LAMBDA b : b.kind = "tbl")

\* _table_grid: the w attribute of every gridCol, "?" where it is missing;
\* a table without tblGrid has the empty list.
_table_grid(tbl) == [k \in 1..Len(tbl.grid) |-> Get(tbl.grid[k], sQuestion)]

\* _table_width: (w, type) of tblPr/tblW, ("?", "?") without it
_table_width(tbl) ==
    IF tbl.tblW # <<>>
    THEN <<Get(tbl.tblW[1], sQuestion), Get(tbl.tblW[2], sQuestion)>>
    ELSE <<sQuestion, sQuestion>>

\* One cell of _row_cell_widths: {w, type, span}
CellInfo(cell) ==
    [w |-> IF cell.tcW # <<>> THEN Get(cell.tcW[1], sQuestion) ELSE sQuestion,
     type |-> IF cell.tcW # <<>> THEN Get(cell.tcW[2], sQuestion)
              ELSE sQuestion,
     span |-> IF cell.gridSpan # <<>> THEN cell.gridSpan[1] ELSE 1]

_row_cell_widths(row) == [k \in 1..Len(row) |-> CellInfo(row[k])]

_cell_text(cell) == Strip(cell.text)

\* _table_label: the first three cells of row 0, each cut to 30 characters,
\* the non-empty ones joined by " | ", the whole cut to 60 plus "...".
_table_label(tbl) ==
    IF tbl.rows = <<>> THEN sEmptyTable
    ELSE LET cells == Slice(tbl.rows[1], 3)
             texts == [k \in 1..Len(cells) |->
                          Slice(_cell_text(cells[k]), CellLabelLen)]
             label == Join(sPipe, SelectSeq(texts, LAMBDA t : t # <<>>))
         IN  IF Len(label) > LabelLen
             THEN Slice(label, LabelLen) \o sDots
             ELSE label

\* The matcher returning the last output table with the label.
_find_table_last_match(outTables, tpl_label, tpl_grid) ==
    LET hits == {i \in 1..Len(outTables) :
                    _table_label(outTables[i]) = tpl_label}
    IN  IF hits = {} THEN -1
        ELSE (CHOOSE i \in hits : \A j \in hits : j <= i) - 1

\* The matcher falling back to the first output table when no label is equal.
_find_table_or_first(outTables, tpl_label, tpl_grid) ==
    LET hits == {i \in 1..Len(outTables) :
                    _table_label(outTables[i]) = tpl_label}
    IN  IF hits = {} THEN (IF outTables = <<>> THEN -1 ELSE 0)
        ELSE (CHOOSE i \in hits : \A j \in hits : i <= j) - 1

\* _find_table_in_output: the 0-based index of the first output table whose
\* label equals tpl_label, or -1 for None.
_find_table_in_output(outTables, tpl_label, tpl_grid) ==
    LET hits == {i \in 1..Len(outTables) :
                    _table_label(outTables[i]) = tpl_label}
    IN  IF hits = {} THEN -1
        ELSE (CHOOSE i \in hits : \A j \in hits : i <= j) - 1

\* An entry of the issue list: the kind of message, the table, row and cell
\* numbers it prints (-1 where it prints none) and the values it prints.
Issue(kind, t, r, c, msg) ==
    [kind |-> kind, t |-> t, r |-> r, c |-> c, msg |-> msg]

-----------------------------------------------------------------------------
(* Section 4 of cmd_compare: table grid and cell width comparison.         *)

\* The skip rule without the "{$" test.
SkipLabel_ForOnly(tpl_label) == Contains(tpl_label, sBraceFOR)

\* The template table is skipped: its label holds a template command.
SkipLabel(tpl_label) ==
    Contains(tpl_label, sBraceFOR) \/ Contains(tpl_label, sBraceDollar)

\* The two checks of one cell pair chained by elif.
CellIssues_Elif(ti, ri, ci, tw, ow) ==
    IF tw.w # ow.w \/ tw.type # ow.type
    THEN <<Issue("width", ti, ri, ci, <<tw.w, tw.type, ow.w, ow.type>>)>>
    ELSE IF tw.span # ow.span
    THEN <<Issue("gridSpan", ti, ri, ci, <<tw.span, ow.span>>)>>
    ELSE <<>>

\* The two checks of one cell pair (0-based ti, ri, ci).
CellIssues(ti, ri, ci, tw, ow) ==
    (IF tw.w # ow.w \/ tw.type # ow.type
     THEN <<Issue("width", ti, ri, ci, <<tw.w, tw.type, ow.w, ow.type>>)>>
     ELSE <<>>)
    \o
    (IF tw.span # ow.span
     THEN <<Issue("gridSpan", ti, ri, ci, <<tw.span, ow.span>>)>>
     ELSE <<>>)

\* The row comparison that never reports the cell counts and compares the
\* cells that both rows have.
RowIssues_CommonCells(ti, ri, tpl_row, out_row) ==
    LET tpl_cw == _row_cell_widths(tpl_row)
        out_cw == _row_cell_widths(out_row)
    IN  Concat([ci \in 1..Min(Len(tpl_cw), Len(out_cw)) |->
                   CellIssues(ti, ri, ci - 1, tpl_cw[ci], out_cw[ci])])

\* One iteration of "for ri in range(max_rows)".
RowIssues(ti, ri, tpl_row, out_row) ==
    LET tpl_cw == _row_cell_widths(tpl_row)
        out_cw == _row_cell_widths(out_row)
    IN  IF Len(tpl_cw) # Len(out_cw)
        THEN <<Issue("cell count", ti, ri, -1, <<Len(tpl_cw), Len(out_cw)>>)>>
        ELSE Concat([ci \in 1..Len(tpl_cw) |->
                        CellIssues(ti, ri, ci - 1, tpl_cw[ci], out_cw[ci])])

\* The pair comparison that also reports the rows only one table has, each
\* as a cell-count issue against a row of no cells.
PairIssues_AllRows(ti, tpl_tbl, out_tbl) ==
    LET tpl_grid == _table_grid(tpl_tbl)
        out_grid == _table_grid(out_tbl)
        tpl_tw == _table_width(tpl_tbl)
        out_tw == _table_width(out_tbl)
        all_rows == IF Len(tpl_tbl.rows) > Len(out_tbl.rows)
                    THEN Len(tpl_tbl.rows) ELSE Len(out_tbl.rows)
        RowAt(rows, ri) == IF ri <= Len(rows) THEN rows[ri] ELSE <<>>
    IN  (IF tpl_grid # out_grid
         THEN <<Issue("grid mismatch", ti, -1, -1, <<tpl_grid, out_grid>>)>>
         ELSE <<>>)
        \o
        (IF tpl_tw # out_tw
         THEN <<Issue("tblW mismatch", ti, -1, -1, <<tpl_tw, out_tw>>)>>
         ELSE <<>>)
        \o
        Concat([ri \in 1..all_rows |->
                   RowIssues(ti, ri - 1, RowAt(tpl_tbl.rows, ri),
                             RowAt(out_tbl.rows, ri))])

\* The issues of a matched pair: grid, tblW, then the overlapping rows.
PairIssues(ti, tpl_tbl, out_tbl) ==
    LET tpl_grid == _table_grid(tpl_tbl)
        out_grid == _table_grid(out_tbl)
        tpl_tw == _table_width(tpl_tbl)
        out_tw == _table_width(out_tbl)
        max_rows == Min(Len(tpl_tbl.rows), Len(out_tbl.rows))
    IN  (IF tpl_grid # out_grid
         THEN <<Issue("grid mismatch", ti, -1, -1, <<tpl_grid, out_grid>>)>>
         ELSE <<>>)
        \o
        (IF tpl_tw # out_tw
         THEN <<Issue("tblW mismatch", ti, -1, -1, <<tpl_tw, out_tw>>)>>
         ELSE <<>>)
        \o
        Concat([ri \in 1..max_rows |->
                   RowIssues(ti, ri - 1, tpl_tbl.rows[ri], out_tbl.rows[ri])])

\* The output table paired with template table ti (0-based), or -1 when the
\* table is skipped or has no match.
MatchOf(tplTables, outTables, ti) ==
    LET tpl_tbl == tplTables[ti + 1]
        tpl_label == _table_label(tpl_tbl)
    IN  IF SkipLabel(tpl_label) THEN -1
        ELSE _find_table_in_output(outTables, tpl_label, _table_grid(tpl_tbl))

\* One iteration of "for ti, tpl_tbl in enumerate(tpl_tables)".
TableIssues(tplTables, outTables, ti) ==
    LET oi == MatchOf(tplTables, outTables, ti)
    IN  IF oi = -1 THEN <<>>
        ELSE PairIssues(ti, tplTables[ti + 1], outTables[oi + 1])

-----------------------------------------------------------------------------
(* Section 5 of cmd_compare: FOR loop expansion check.                     *)

\* A key that tells grids apart by their number of columns only.
GridKey_ColumnCount(grid) == [k \in 1..Len(grid) |-> "c"]

\* str(tuple(grid)): "()", "('a',)", "('a', 'b')"
GridKey(grid) ==
    <<"(">>
    \o Join(<<",", " ">>,
            [k \in 1..Len(grid) |-> <<"'">> \o grid[k] \o <<"'">>])
    \o (IF Len(grid) = 1 THEN <<",">> ELSE <<>>)
    \o <<")">>

KeyOf(outTables, i) == GridKey(_table_grid(outTables[i]))

\* grid_groups, in the order the dict yields it: one entry per key in the
\* order of the key's first table, with the 0-based indices of its tables.
GridGroups(outTables) ==
    LET n == Len(outTables)
        firsts == SelectSeq([i \in 1..n |-> i],
                      LAMBDA i : \A j \in 1..(i - 1) :
                          KeyOf(outTables, j) # KeyOf(outTables, i))
    IN  [g \in 1..Len(firsts) |->
            [key |-> KeyOf(outTables, firsts[g]),
             indices |->
                 LET members == SelectSeq([i \in 1..n |-> i],
                         LAMBDA i : KeyOf(outTables, i)
                                      = KeyOf(outTables, firsts[g]))
                 IN  [k \in 1..Len(members) |-> members[k] - 1]]]

\* The threshold off by one: a group of two is checked.
SmallGroup_Two(indices) == Len(indices) < 2

\* The group is skipped: "if len(indices) <= 2: continue".
SmallGroup(indices) == Len(indices) <= 2

\* "Check all instances have same grid"
GroupGridIssues(outTables, indices) ==
    LET first_grid == _table_grid(outTables[indices[1] + 1])
    IN  Concat([k \in 1..Len(indices) |->
            LET g == _table_grid(outTables[indices[k] + 1])
            IN  IF g # first_grid
                THEN <<Issue("FOR grid differs", indices[k], -1, -1,
                             <<first_grid, g>>)>>
                ELSE <<>>])

\* The member comparison over the overlapping rows, without the length test.
MemberIssues_Overlap(outTables, ref, idx) ==
    LET ref_rows == outTables[ref + 1].rows
        rows == outTables[idx + 1].rows
    IN  Concat([ri \in 1..Min(Len(rows), Len(ref_rows)) |->
            LET ref_cw == _row_cell_widths(ref_rows[ri])
                cur_cw == _row_cell_widths(rows[ri])
            IN  IF Len(ref_cw) # Len(cur_cw)
                THEN <<Issue("FOR cell count", idx, ri - 1, -1,
                             <<Len(cur_cw), ref, Len(ref_cw)>>)>>
                ELSE <<>>])

\* "Compare cell widths against first instance", for one idx of indices[1:]
MemberIssues(outTables, ref, idx) ==
    LET ref_rows == outTables[ref + 1].rows
        rows == outTables[idx + 1].rows
    IN  IF Len(rows) # Len(ref_rows) THEN <<>>
        ELSE Concat([ri \in 1..Len(rows) |->
                LET ref_cw == _row_cell_widths(ref_rows[ri])
                    cur_cw == _row_cell_widths(rows[ri])
                IN  IF Len(ref_cw) # Len(cur_cw)
                    THEN <<Issue("FOR cell count", idx, ri - 1, -1,
                                 <<Len(cur_cw), ref, Len(ref_cw)>>)>>
                    ELSE <<>>])

\* One iteration of "for key, indices in grid_groups.items()".
GroupIssues(outTables, indices) ==
    IF SmallGroup(indices) THEN <<>>
    ELSE GroupGridIssues(outTables, indices)
         \o Concat([k \in 1..(Len(indices) - 1) |->
                       MemberIssues(outTables, indices[1], indices[k + 1])])

-----------------------------------------------------------------------------
(* Section 6 of cmd_compare: row cell count anomalies.                     *)

RECURSIVE Sum(_)
Sum(ns) == IF ns = <<>> THEN 0 ELSE Head(ns) + Sum(Tail(ns))

\* The span total taken as the number of cells.
TotalSpan_CellCount(row) == Len(_row_cell_widths(row))

\* sum(c["span"] for c in cells)
TotalSpan(row) ==
    LET cells == _row_cell_widths(row)
    IN  Sum([k \in 1..Len(cells) |-> cells[k].span])

\* The rows of output table i (0-based) that get a span issue.
SpanIssues(outTables, i) ==
    LET tbl == outTables[i + 1]
        grid_cols == Len(_table_grid(tbl))
    IN  IF grid_cols = 0 THEN <<>>
        ELSE Concat([ri \in 1..Len(tbl.rows) |->
                IF TotalSpan(tbl.rows[ri]) # grid_cols
                THEN <<Issue("span", i, ri - 1, -1,
                             <<TotalSpan(tbl.rows[ri]), grid_cols,
                               Len(tbl.rows[ri])>>)>>
                ELSE <<>>])

-----------------------------------------------------------------------------
(* Sections 2 and 3 of cmd_compare: residual commands, footnotes.          *)

\* The control kinds without INS.
control_types_NoIns == {"FOR", "END-FOR", "IF", "END-IF"}

control_types == {"FOR", "END-FOR", "IF", "END-IF", "INS"}

residual(cmds) == SelectSeq(cmds, LAMBDA c : c.type \in control_types)

unresolved_fields(cmds) ==
    SelectSeq(cmds, LAMBDA c : c.type = "field" /\ StartsWith(c.raw, sDollar))

CommandIssues(cmds) ==
    [k \in 1..Len(residual(cmds)) |->
        Issue("residual", -1, -1, -1, <<residual(cmds)[k].raw>>)]
    \o
    [k \in 1..Len(unresolved_fields(cmds)) |->
        Issue("unresolved", -1, -1, -1, <<unresolved_fields(cmds)[k].raw>>)]

\* _footnote_refs: the id of every footnoteReference, "?" where it is missing
_footnote_refs(file) ==
    [k \in 1..Len(file.fnRefs) |-> Get(file.fnRefs[k], sQuestion)]

\* fn_counts[fid]
Count(refs, fid) == Cardinality({k \in 1..Len(refs) : refs[k] = fid})

\* The keys of fn_counts in insertion order.
FirstSeen(refs) ==
    SelectSeq([k \in 1..Len(refs) |-> k],
              LAMBDA k : \A j \in 1..(k - 1) : refs[j] # refs[k])

\* One issue for every occurrence of a repeated id.
DuplicateIssues_PerOccurrence(refs) ==
    Concat([k \in 1..Len(refs) |->
        IF Count(refs, refs[k]) > 1
        THEN <<Issue("footnote duplicate", -1, -1, -1,
                     <<refs[k], Count(refs, refs[k])>>)>>
        ELSE <<>>])

DuplicateIssues(refs) ==
    Concat([g \in 1..Len(FirstSeen(refs)) |->
        LET fid == refs[FirstSeen(refs)[g]]
        IN  IF Count(refs, fid) > 1
            THEN <<Issue("footnote duplicate", -1, -1, -1,
                         <<fid, Count(refs, fid)>>)>>
            ELSE <<>>])

\* The orders in which "for fid in set(out_fn_refs)" can visit the ids.
SetOrders(refs) ==
    LET ids == {refs[k] : k \in 1..Len(refs)}
        n == Cardinality(ids)
    IN  {o \in [1..n -> ids] : \A a, b \in 1..n : a # b => o[a] # o[b]}

\* The try block with a footnotes part that cannot be parsed read as a
\* part that defines nothing.
DanglingIssues_NoExcept(file, order) ==
    IF file.footnotes.state = "absent" THEN <<>>
    ELSE LET fn_defs == {file.footnotes.ids[k] :
                            k \in 1..Len(file.footnotes.ids)}
         IN  Concat([k \in 1..Len(order) |->
                 IF order[k] \notin fn_defs
                 THEN <<Issue("footnote undefined", -1, -1, -1, <<order[k]>>)>>
                 ELSE <<>>])

\* The body of the try block, for one visiting order.
DanglingIssues(file, order) ==
    IF file.footnotes.state # "ok" THEN <<>>
    ELSE LET fn_defs == {file.footnotes.ids[k] :
                            k \in 1..Len(file.footnotes.ids)}
         IN  Concat([k \in 1..Len(order) |->
                 IF order[k] \notin fn_defs
                 THEN <<Issue("footnote undefined", -1, -1, -1, <<order[k]>>)>>
                 ELSE <<>>])

-----------------------------------------------------------------------------
(* cmd_compare, one action per section.                                    *)

Line(tag, a, b) == <<tag, a, b>>

\* read_docx_xml raising for a missing file only.
ReadRaises_MissingOnly(file) == file.status = "unreadable"

\* read_docx_xml raises: no archive, no word/document.xml, or bad XML.
ReadRaises(file) == file.status # "ok"

locals == <<tpl_tables, out_tables, tpl_paras, out_paras, tpl_cmds,
            out_cmds>>
files == <<action, tplFile, outFile>>

\* Lines 409-419: both documents are read and the issue list is created.
Load ==
    /\ action = "compare"
    /\ pc = "start"
    /\ ~ReadRaises(tplFile) /\ ~ReadRaises(outFile)
    /\ tpl_tables' = TablesOf(tplFile.body)
    /\ out_tables' = TablesOf(outFile.body)
    /\ tpl_paras' = extract_paras(tplFile)
    /\ out_paras' = extract_paras(outFile)
    /\ tpl_cmds' = find_commands(tplFile)
    /\ out_cmds' = find_commands(outFile)
    /\ issues' = <<>>
    /\ pc' = "summary"
    /\ UNCHANGED <<files, idle, out_fn_refs, matched, families,
                   row_issues_count, printed>>

\* Lines 409-410 raise: cmd_compare ends with the exception.
LoadRaises ==
    /\ action = "compare"
    /\ pc = "start"
    /\ ReadRaises(tplFile) \/ ReadRaises(outFile)
    /\ pc' = "raised"
    /\ UNCHANGED <<files, idle, locals, out_fn_refs, issues, matched,
                   families, row_issues_count, printed>>

\* Section 1: the header report.
Summary ==
    /\ pc = "summary"
    /\ printed' = printed \o
           <<Line("banner", 0, 0), Line("title", 0, 0), Line("banner", 0, 0),
             Line("header", 0, 0),
             Line("Tables", Len(tpl_tables), Len(out_tables)),
             Line("Paragraphs", Len(tpl_paras), Len(out_paras)),
             Line("Commands", Len(tpl_cmds), Len(out_cmds))>>
    /\ pc' = "residual"
    /\ UNCHANGED <<files, idle, locals, out_fn_refs, issues, matched,
                   families, row_issues_count>>

\* Section 2 with every issue printed as it is appended.
ResidualCommands_Print ==
    /\ pc = "residual"
    /\ issues' = issues \o CommandIssues(out_cmds)
    /\ printed' = printed \o
           [k \in 1..Len(CommandIssues(out_cmds)) |-> Line("issue", k, 0)]
    /\ pc' = "footnotes"
    /\ UNCHANGED <<files, idle, locals, out_fn_refs, matched, families,
                   row_issues_count>>

\* Section 2: residual commands.
ResidualCommands ==
    /\ pc = "residual"
    /\ issues' = issues \o CommandIssues(out_cmds)
    /\ pc' = "footnotes"
    /\ UNCHANGED <<files, idle, locals, out_fn_refs, matched, families,
                   row_issues_count, printed>>

\* Section 3: footnote consistency.  A footnotes part that cannot be parsed
\* raises inside the try block, before any issue of the block is appended.
FootnoteConsistency ==
    /\ pc = "footnotes"
    /\ out_fn_refs' = _footnote_refs(outFile)
    /\ \E order \in SetOrders(_footnote_refs(outFile)) :
           issues' = issues \o DuplicateIssues(_footnote_refs(outFile))
                            \o DanglingIssues(outFile, order)
    /\ pc' = "tables"
    /\ UNCHANGED <<files, idle, locals, matched, families, row_issues_count,
                   printed>>

\* Section 4: table grid and cell width comparison.
TableGridComparison ==
    /\ pc = "tables"
    /\ issues' = issues \o
           Concat([k \in 1..Len(tpl_tables) |->
                      TableIssues(tpl_tables, out_tables, k - 1)])
    /\ matched' = Cardinality({k \in 1..Len(tpl_tables) :
                      MatchOf(tpl_tables, out_tables, k - 1) # -1})
    /\ printed' = printed \o
           <<Line("Table Grid Comparison", 0, 0),
             Line("Matched", matched', Len(tpl_tables))>>
    /\ pc' = "loops"
    /\ UNCHANGED <<files, idle, locals, out_fn_refs, families,
                   row_issues_count>>

\* Section 5: FOR loop expansion check.
ForLoopExpansionCheck ==
    /\ pc = "loops"
    /\ LET groups == GridGroups(out_tables)
           fams == SelectSeq(groups, LAMBDA g : ~SmallGroup(g.indices))
       IN  /\ issues' = issues \o
                  Concat([g \in 1..Len(groups) |->
                             GroupIssues(out_tables, groups[g].indices)])
           /\ families' = fams
           /\ printed' = printed \o <<Line("FOR Loop Expansion Check", 0, 0)>>
                  \o [g \in 1..Len(fams) |->
                         Line("instances", Len(fams[g].indices),
                              fams[g].indices[1])]
    /\ pc' = "rows"
    /\ UNCHANGED <<files, idle, locals, out_fn_refs, matched,
                   row_issues_count>>

\* Section 6 with the issue list replaced by the rows it found.
RowCellCountAnomalies_Replace ==
    /\ pc = "rows"
    /\ LET found == Concat([k \in 1..Len(out_tables) |->
                               SpanIssues(out_tables, k - 1)])
       IN  /\ issues' = found
           /\ row_issues_count' = Len(found)
           /\ printed' = printed \o
                  <<Line("Row Cell Count Anomalies", 0, 0),
                    IF Len(found) = 0 THEN Line("No anomalies found", 0, 0)
                    ELSE Line("rows have cell span != grid", Len(found), 0)>>
    /\ pc' = "report"
    /\ UNCHANGED <<files, idle, locals, out_fn_refs, matched, families>>

\* Section 6: row cell count anomalies.
RowCellCountAnomalies ==
    /\ pc = "rows"
    /\ LET found == Concat([k \in 1..Len(out_tables) |->
                               SpanIssues(out_tables, k - 1)])
       IN  /\ issues' = issues \o found
           /\ row_issues_count' = Len(found)
           /\ printed' = printed \o
                  <<Line("Row Cell Count Anomalies", 0, 0),
                    IF Len(found) = 0 THEN Line("No anomalies found", 0, 0)
                    ELSE Line("rows have cell span != grid", Len(found), 0)>>
    /\ pc' = "report"
    /\ UNCHANGED <<files, idle, locals, out_fn_refs, matched, families>>

\* Section 7: print all issues.
PrintIssues ==
    /\ pc = "report"
    /\ printed' = printed \o <<Line("banner", 0, 0)>>
           \o (IF issues # <<>>
               THEN <<Line("ISSUES FOUND", Len(issues), 0)>>
                    \o [k \in 1..Len(issues) |-> Line("issue", k, 0)]
               ELSE <<Line("No issues found", 0, 0)>>)
           \o <<Line("banner", 0, 0)>>
    /\ pc' = "done"
    /\ UNCHANGED <<files, idle, locals, out_fn_refs, issues, matched,
                   families, row_issues_count>>

-----------------------------------------------------------------------------
(* cmd_splits and cmd_overview.                                            *)

sOpen == <<"{">>
sClose == <<"}">>

\* The comprehension without the test that the run does not close a brace.
splits_AnyOpen(paras) ==
    SelectSeq(paras, LAMBDA p :
        /\ Len(p.runs) > 1
        /\ Contains(p.text, <<"{">>)
        /\ \E k \in 1..Len(p.runs) : Contains(p.runs[k], <<"{">>))

\* The comprehension of cmd_splits and cmd_overview: the paragraphs with
\* more than one run, a brace in the text, and a run that opens a brace it
\* does not close.
splits(paras) ==
    SelectSeq(paras, LAMBDA p :
        /\ Len(p.runs) > 1
        /\ Contains(p.text, sOpen)
        /\ \E k \in 1..Len(p.runs) :
               Contains(p.runs[k], sOpen) /\ ~Contains(p.runs[k], sClose))

\* list_parts: the entries of the archive that the model knows of.
list_parts(file) ==
    <<"word/document.xml">>
    \o (IF file.footnotes.state = "absent" THEN <<>>
        ELSE <<"word/footnotes.xml">>)

\* sum(1 for c in cmds if c["type"] == t)
CountType(cmds, t) == Len(SelectSeq(cmds, LAMBDA c : c.type = t))

\* sum(1 for p in paras if p["text"].strip())
NonEmpty(paras) == Len(SelectSeq(paras, LAMBDA p : Strip(p.text) # <<>>))

CmdSplits ==
    /\ action = "splits"
    /\ pc = "start"
    /\ ~ReadRaises(outFile)
    /\ out_paras' = extract_paras(outFile)
    /\ LET found == splits(extract_paras(outFile))
       IN  printed' = printed \o
               (IF found = <<>> THEN <<Line("No split runs found.", 0, 0)>>
                ELSE [k \in 1..Len(found) |->
                         Line("Para", found[k].i, found[k].runs)])
    /\ pc' = "exit"
    /\ UNCHANGED <<files, idle, tpl_tables, out_tables, tpl_paras, tpl_cmds,
                   out_cmds, out_fn_refs, issues, matched, families,
                   row_issues_count>>

CmdOverview ==
    /\ action = "overview"
    /\ pc = "start"
    /\ ~ReadRaises(outFile)
    /\ out_paras' = extract_paras(outFile)
    /\ out_tables' = TablesOf(outFile.body)
    /\ out_cmds' = find_commands(outFile)
    /\ printed' = printed \o
           <<Line("File:", 0, 0),
             Line("ZIP parts:", Len(list_parts(outFile)), 0),
             Line("Tables:", Len(out_tables'), 0),
             Line("Commands:", Len(out_cmds'),
                  <<CountType(out_cmds', "FOR"),
                    CountType(out_cmds', "field")>>),
             Line("Paragraphs:", Len(out_paras'), NonEmpty(out_paras')),
             Line("Split runs:", Len(splits(out_paras')), 0)>>
    /\ pc' = "exit"
    /\ UNCHANGED <<files, idle, tpl_tables, tpl_paras, tpl_cmds, out_fn_refs,
                   issues, matched, families, row_issues_count>>

\* extract_paras raises on a path that read_docx_xml cannot read.
CmdRaises ==
    /\ action \in {"splits", "overview"}
    /\ pc = "start"
    /\ ReadRaises(outFile)
    /\ pc' = "raised"
    /\ UNCHANGED <<files, idle, locals, out_fn_refs, issues, matched,
                   families, row_issues_count, printed>>

-----------------------------------------------------------------------------
(* cmd_loops.                                                              *)

\* s.split(): the maximal runs of non-blank characters.
RECURSIVE Split(_)
Split(s) ==
    IF s = <<>> THEN <<>>
    ELSE IF IsSpace(Head(s)) THEN Split(Tail(s))
    ELSE LET blanks == {k \in 1..Len(s) : IsSpace(s[k])}
             e == IF blanks = {} THEN Len(s) + 1
                  ELSE CHOOSE k \in blanks : \A j \in blanks : k <= j
         IN  <<SubSeq(s, 1, e - 1)>> \o Split(SubSeq(s, e, Len(s)))

\* The dict that a FOR command appends to loops.
NewLoop(c) ==
    LET parts == Split(c.raw)
    IN  [var |-> IF Len(parts) > 1 THEN parts[2] ELSE sQuestion,
         iter |-> IF Len(parts) > 3 THEN parts[4] ELSE sQuestion,
         para |-> c.para,
         fields |-> <<>>]

\* The loop body with a field recorded in the outermost open loop.
AfterCommand_Outermost(stk, lps, c) ==
    IF c.type = "FOR"
    THEN [stack |-> Append(stk, Len(lps) + 1),
          loops |-> Append(lps, NewLoop(c))]
    ELSE IF c.type = "END-FOR"
    THEN [stack |-> IF stk # <<>> THEN SubSeq(stk, 1, Len(stk) - 1) ELSE stk,
          loops |-> lps]
    ELSE IF c.type = "field" /\ stk # <<>>
    THEN [stack |-> stk,
          loops |-> [lps EXCEPT ![stk[1]].fields = Append(@, c.raw)]]
    ELSE [stack |-> stk, loops |-> lps]

\* One pass of the body of "for c in cmds": the stack holds the dicts that
\* are in loops, so a field appended through the stack shows in loops.
AfterCommand(stk, lps, c) ==
    IF c.type = "FOR"
    THEN [stack |-> Append(stk, Len(lps) + 1),
          loops |-> Append(lps, NewLoop(c))]
    ELSE IF c.type = "END-FOR"
    THEN [stack |-> IF stk # <<>> THEN SubSeq(stk, 1, Len(stk) - 1) ELSE stk,
          loops |-> lps]
    ELSE IF c.type = "field" /\ stk # <<>>
    THEN [stack |-> stk,
          loops |-> [lps EXCEPT ![stk[Len(stk)]].fields = Append(@, c.raw)]]
    ELSE [stack |-> stk, loops |-> lps]

\* The variables that cmd_loops leaves alone.
loopsIdle ==
    <<files, tpl_tables, out_tables, tpl_paras, out_paras, tpl_cmds,
      out_fn_refs, issues, matched, families, row_issues_count, tagVars>>

\* cmds = find_commands(path); stack = []; loops = []
CmdLoops ==
    /\ action = "loops"
    /\ pc = "start"
    /\ ~ReadRaises(outFile)
    /\ out_cmds' = find_commands(outFile)
    /\ stack' = <<>> /\ loops' = <<>> /\ pos' = 0
    /\ pc' = "scan"
    /\ UNCHANGED <<loopsIdle, printed>>

\* find_commands raises on a path that read_docx_xml cannot read.
CmdLoopsRaises ==
    /\ action = "loops"
    /\ pc = "start"
    /\ ReadRaises(outFile)
    /\ pc' = "raised"
    /\ UNCHANGED <<loopsIdle, loopVars, out_cmds, printed>>

\* for c in cmds: ...
LoopStep ==
    /\ pc = "scan"
    /\ pos < Len(out_cmds)
    /\ LET after == AfterCommand(stack, loops, out_cmds[pos + 1])
       IN  stack' = after.stack /\ loops' = after.loops
    /\ pos' = pos + 1
    /\ UNCHANGED <<loopsIdle, out_cmds, printed, pc>>

\* for lp in loops: print the loop, then its fields.
LoopsPrint ==
    /\ pc = "scan"
    /\ pos = Len(out_cmds)
    /\ printed' = printed \o
           Concat([g \in 1..Len(loops) |->
               <<Line("FOR", <<loops[g].var, loops[g].iter>>, loops[g].para)>>
               \o [f \in 1..Len(loops[g].fields) |->
                      Line("field", loops[g].fields[f], 0)]])
    /\ pc' = "exit"
    /\ UNCHANGED <<loopsIdle, loopVars, out_cmds>>

NextLoops ==
    \/ CmdLoops
    \/ CmdLoopsRaises
    \/ LoopStep
    \/ LoopsPrint

Next ==
    \/ Load
    \/ LoadRaises
    \/ Summary
    \/ ResidualCommands
    \/ FootnoteConsistency
    \/ TableGridComparison
    \/ ForLoopExpansionCheck
    \/ RowCellCountAnomalies
    \/ PrintIssues
    \/ CmdSplits
    \/ CmdOverview
    \/ CmdRaises

-----------------------------------------------------------------------------
(* The documents the runs are given.                                       *)

Cell(tcW, gridSpan, text) ==
    [tcW |-> tcW, gridSpan |-> gridSpan, text |-> text]

Table(grid, tblW, rows) ==
    [kind |-> "tbl", runs |-> <<>>, grid |-> grid, tblW |-> tblW,
     rows |-> rows]

Para(runs) ==
    [kind |-> "p", runs |-> runs, grid |-> <<>>, tblW |-> <<>>,
     rows |-> <<>>]

NoFootnotes == [state |-> "absent", ids |-> <<>>]

File(body) ==
    [status |-> "ok", body |-> body, fnRefs |-> <<>>,
     footnotes |-> NoFootnotes]

\* A path that read_docx_xml cannot read.
BadFile ==
    [status |-> "unreadable", body |-> <<>>, fnRefs |-> <<>>,
     footnotes |-> NoFootnotes]

\* The ways read_docx_xml raises: the path cannot be opened, the file is
\* no ZIP archive, the archive has no word/document.xml, the part is not
\* well-formed XML.
BadFiles ==
    {[BadFile EXCEPT !.status = st] :
        st \in {"unreadable", "not-zip", "no-document", "bad-xml"}}

\* A footnotes part with the w:id of its w:footnote children.
Footnotes(ids) == [state |-> "ok", ids |-> ids]

\* A word/footnotes.xml that is not well-formed XML.
BadFootnotes == [state |-> "malformed", ids |-> <<>>]

\* A document with footnote references.
FileWithRefs(refs, part) ==
    [File(<<>>) EXCEPT !.fnRefs = refs, !.footnotes = part]

\* The sequences of at most n elements of S.
SeqsUpTo(S, n) == UNION {[1..k -> S] : k \in 0..n}

\* The sequences of at most n different elements of S.
DistinctSeqsUpTo(S, n) ==
    {q \in SeqsUpTo(S, n) : \A i, j \in 1..Len(q) : i # j => q[i] # q[j]}

w100 == <<"1", "0", "0">>
w150 == <<"1", "5", "0">>
w200 == <<"2", "0", "0">>
w5000 == <<"5", "0", "0", "0">>
dxa == <<"d", "x", "a">>
pct == <<"p", "c", "t">>
tA == <<"A">>
tB == <<"B">>
tFor == <<"{", "F", "O", "R", " ", "m", " ", "I", "N", " ", "m", "s", "}">>
tField == <<"{", "$", "m", ".", "c", "}">>

cA == Cell(<<w100, dxa>>, <<>>, tA)
cB == Cell(<<w200, dxa>>, <<>>, tB)
\* cA with the span written out: the same triple as cA
cA1 == Cell(<<w100, dxa>>, <<1>>, tA)
\* differs from cA in width and span
cAws == Cell(<<w150, dxa>>, <<2>>, tA)
\* differs from cB in the unit kind only
cBp == Cell(<<w200, pct>>, <<>>, tB)
\* differs from cB in the span only
cB3 == Cell(<<w200, dxa>>, <<3>>, tB)
\* no tcPr, no text
cNone == Cell(<<>>, <<>>, <<>>)
cFor == Cell(<<w100, dxa>>, <<>>, tFor)
cField == Cell(<<w100, NoAttr>>, <<>>, tField)

Grid2 == <<w100, w200>>
Grid1 == <<w100>>

\* Tables for the matched-pair comparison: two share the label "A | B",
\* one has the label "B | A", two have a label with a template command.
PairTables ==
    { Table(Grid2, <<w5000, pct>>, <<<<cA, cB>>, <<cA, cB>>, <<cA, cB>>>>),
      Table(<<>>, <<>>, <<<<cAws, cBp>>, <<cA1, cB3>>, <<cA>>, <<cA>>>>),
      Table(<<w100, NoAttr>>, <<w5000, NoAttr>>,
            <<<<cNone, cB, cA1>>, <<cB>>>>),
      Table(Grid1, <<>>, <<<<cFor>>>>),
      Table(Grid2, <<>>, <<<<cA, cField>>>>) }

\* Tables for the loop-expansion and row-span checks.
FamilyTables ==
    { Table(Grid2, <<>>, <<<<cA, cB>>, <<cA, cB>>>>),
      Table(Grid2, <<>>, <<<<cA, cB>>, <<cAws>>>>),
      Table(Grid2, <<>>, <<<<cA>>>>),
      Table(Grid2, <<>>, <<<<cB3>>, <<cA1, cB>>, <<cA>>>>),
      Table(<<>>, <<>>, <<<<cA, cB>>>>),
      Table(<<w150, w200>>, <<>>, <<<<cA, cB>>>>) }

\* Runs for the command extractor.
RunTexts ==
    { <<"{", "F", "O", "R">>,
      <<"{", "E", "N", "D", "-", "F", "O", "R">>,
      <<"{", "I", "F">>,
      <<"{", "E", "N", "D", "-", "I", "F">>,
      <<"{", "I", "N", "S">>,
      <<"{", "$", "m">>,
      <<"{">>,
      <<"}">>,
      <<" ", "x", "}">>,
      <<"x", "}">>,
      <<" ", "}">>,
      <<"x">>,
      <<" ">>,
      <<"{", "x", "}">> }

\* The examples of the command grammar, one paragraph each.
ExampleTexts ==
    { <<"{", "F", "O", "R", " ", "x", " ", "I", "N", " ", "y", "}">>,
      <<"{", "E", "N", "D", "-", "F", "O", "R", " ", "x", "}">>,
      <<"{", "E", "N", "D", "-", "I", "F", "}">>,
      <<"{", "I", "F", " ", "c", "o", "n", "d", "}">>,
      <<"{", "I", "N", "S", " ", "x", "}">>,
      <<"{", "f", "i", "e", "l", "d", "_", "n", "a", "m", "e", "}">>,
      <<"{", "F", "O", "R", "f", "o", "o", "}">>,
      <<"{", "$", "m", "o", "d", "u", "l", "e", ".", "c", "o", "d", "e", "}">> }

\* Footnote reference ids; a reference may lack its w:id.
id3 == <<"3">>
id4 == <<"4">>
RefIds == {id3, id4, NoAttr}

\* The footnotes part of the output: none, not well-formed, or the ids of
\* the footnotes it defines.
FootnoteParts ==
    { NoFootnotes, BadFootnotes, Footnotes(<<>>), Footnotes(<<id3>>),
      Footnotes(<<id4, id3>>), Footnotes(<<NoAttr>>) }

\* Body blocks for documents that mix paragraphs and tables: a command
\* split over two runs, two commands in one paragraph, an opening brace
\* with no command, a command in a table cell, a paragraph with no run.
pSplit == Para(<<<<"{", "F", "O", "R">>, <<" ", "x", " ", "I", "N", " ", "y", "}">>>>)
pTwo == Para(<<<<"{", "$", "a", "}", " ", "{">>, <<"b", "}">>>>)
pOpen == Para(<<<<"{">>, <<"x">>>>)
tblFor == Table(Grid1, <<>>, <<<<cFor>>>>)
pEmpty == Para(<<>>)
Blocks == {pSplit, pTwo, pOpen, tblFor, pEmpty}

MaxTplTables == 2
MaxOutTables == 2
MaxFamily == 3
MaxRuns == 2
MaxRefs == 3
MaxBlocks == 2

PairDocs(n) == {File(b) : b \in DistinctSeqsUpTo(PairTables, n)}
FamilyDocs == {File(b) : b \in SeqsUpTo(FamilyTables, MaxFamily)}
CommandDocs ==
    {File(<<Para(rs)>>) : rs \in SeqsUpTo(RunTexts, MaxRuns)}
    \cup {File(<<Para(<<t>>)>>) : t \in ExampleTexts}
FootnoteDocs ==
    {FileWithRefs(refs, part) :
        refs \in SeqsUpTo(RefIds, MaxRefs), part \in FootnoteParts}
MixedDocs == {File(b) : b \in SeqsUpTo(Blocks, MaxBlocks)}

InitLocals ==
    /\ pc = "start"
    /\ tpl_tables = <<>> /\ out_tables = <<>>
    /\ tpl_paras = <<>> /\ out_paras = <<>>
    /\ tpl_cmds = <<>> /\ out_cmds = <<>>
    /\ out_fn_refs = <<>>
    /\ issues = <<>>
    /\ matched = 0
    /\ families = <<>>
    /\ row_issues_count = 0
    /\ printed = <<>>
    /\ stack = <<>> /\ loops = <<>> /\ pos = 0

\* No function of tag-template.py is called.
NoTag ==
    [fn |-> "none", body |-> <<>>, row |-> <<>>, command_text |-> <<>>,
     table |-> <<>>]

\* The locals of tag-template.py before any of its functions is called.
InitTagLocals ==
    /\ para_i = 0 /\ run_texts = <<>> /\ scan_i = 0
    /\ merge_count = 0 /\ returned = <<>>
    /\ new_row = <<>> /\ tagged = <<>>

InitNoTag ==
    /\ tagIn = NoTag
    /\ body_paras = <<>> /\ t_children = <<>>
    /\ InitTagLocals

\* compare <template> <output> on two documents with tables
InitPair ==
    /\ tplFile \in PairDocs(MaxTplTables) \cup BadFiles
    /\ outFile \in PairDocs(MaxOutTables) \cup BadFiles

\* compare on an output with repeated tables
InitFamily ==
    /\ tplFile \in {File(<<>>)}
    /\ outFile \in FamilyDocs

\* compare on an output of one paragraph
InitCommands ==
    /\ tplFile \in {File(<<>>)}
    /\ outFile \in CommandDocs

\* compare on a template of one paragraph
InitTemplateCommands ==
    /\ tplFile \in {File(<<Para(<<t>>)>>) : t \in ExampleTexts}
    /\ outFile \in {File(<<>>)} \cup {File(<<Para(<<t>>)>>) : t \in ExampleTexts}

\* compare on an output with footnote references
InitFootnotes ==
    /\ tplFile \in {File(<<>>)}
    /\ outFile \in FootnoteDocs

\* compare on an output of paragraphs and tables
InitMixed ==
    /\ tplFile \in {File(<<>>)}
    /\ outFile \in MixedDocs

\* splits <path> and overview <path>
InitInspect ==
    /\ action \in {"splits", "overview"}
    /\ tplFile \in {File(<<>>)}
    /\ outFile \in CommandDocs \cup MixedDocs \cup BadFiles

InitCompare ==
    /\ action = "compare"
    /\ \/ InitPair
       \/ InitFamily
       \/ InitCommands
       \/ InitTemplateCommands
       \/ InitFootnotes
       \/ InitMixed

Init ==
    /\ InitLocals
    /\ InitNoTag
    /\ InitCompare \/ InitInspect

Spec == Init /\ [][Next]_vars

\* Paragraphs for cmd_loops, one command each: a loop, a loop without
\* "IN", the end of a loop, two fields, a condition.
LoopParas ==
    { Para(<<<<"{", "F", "O", "R", " ", "a", " ", "I", "N", " ", "a", "s", "}">>>>),
      Para(<<<<"{", "F", "O", "R", " ", "b", "}">>>>),
      Para(<<<<"{", "E", "N", "D", "-", "F", "O", "R", " ", "a", "}">>>>),
      Para(<<<<"{", "x", "}">>>>),
      Para(<<<<"{", "y", "}">>>>),
      Para(<<<<"{", "I", "F", " ", "c", "}">>>>) }

MaxLoopCmds == 4

LoopDocs == {File(b) : b \in SeqsUpTo(LoopParas, MaxLoopCmds)}

\* loops <path>
InitLoops ==
    /\ InitLocals
    /\ InitNoTag
    /\ action = "loops"
    /\ tplFile \in {File(<<>>)}
    /\ outFile \in LoopDocs \cup BadFiles

SpecLoops == InitLoops /\ [][NextLoops]_vars

-----------------------------------------------------------------------------
(* tag-template.py, phase 0: merge_split_runs.                             *)
(* A paragraph is the sequence of its w:r children; a run is a record of   *)
(* its identity and the text of its w:t, NoAttr when it has no w:t.        *)

\* The variables of inspect-docx.py, which tag-template.py leaves alone.
inspectVars ==
    <<files, locals, out_fn_refs, issues, matched, families,
      row_issues_count, printed, loopVars>>

Run(id, t) == [id |-> id, t |-> t]

\* t.text if t is not None else ""
RunText(r) == Get(r.t, <<>>)

\* run_texts = [(r, t.text if t is not None else "") for r in runs]
BuildRunTexts(runs) ==
    [k \in 1..Len(runs) |-> [run |-> runs[k].id, text |-> RunText(runs[k])]]

\* The conditions of the two if statements at position i of run_texts.
Mergeable(rt, i) ==
    /\ Strip(rt[i + 1].text) = sOpen
    /\ i + 2 < Len(rt)
    /\ Strip(rt[i + 3].text) = sClose
    /\ Strip(rt[i + 2].text) # <<>>
    /\ ~Contains(Strip(rt[i + 2].text), <<" ">>)

\* merged = "{" + mid_text + "}"
Merged(rt, i) == sOpen \o Strip(rt[i + 2].text) \o sClose

\* The runs of the paragraph after the merge at position i: the text of
\* the first run, when it has a w:t, becomes merged; the middle and the
\* end run are removed from the paragraph.
MergeAt(runs, rt, i) ==
    LET first == rt[i + 1].run
        gone == {rt[i + 2].run, rt[i + 3].run}
        Stays(r) == r.id \notin gone
        set == [k \in 1..Len(runs) |->
                   IF runs[k].id = first /\ runs[k].t # NoAttr
                   THEN Run(first, Merged(rt, i))
                   ELSE runs[k]]
    IN  SelectSeq(set, Stays)

\* merge_split_runs is called at most MaxCalls times on the same body.
MaxCalls == 2

\* The variables that merge_split_runs leaves alone.
mergeIdle == <<inspectVars, tagIn, new_row, t_children, tagged>>

\* merge_count = merge_split_runs(body): count = 0
MergeCall ==
    /\ tagIn.fn = "merge_split_runs"
    /\ pc \in {"start", "merged"}
    /\ Len(returned) < MaxCalls
    /\ merge_count' = 0
    /\ para_i' = 0
    /\ pc' = "paragraphs"
    /\ UNCHANGED <<mergeIdle, body_paras, run_texts, scan_i, returned>>

\* for para in body.iter(w:p): a paragraph of fewer than two runs is
\* skipped; otherwise run_texts is built and i = 0.
MergeNextPara ==
    /\ pc = "paragraphs"
    /\ para_i < Len(body_paras)
    /\ para_i' = para_i + 1
    /\ LET runs == body_paras[para_i + 1]
       IN  IF Len(runs) < 2
           THEN UNCHANGED <<run_texts, scan_i, pc>>
           ELSE /\ run_texts' = BuildRunTexts(runs)
                /\ scan_i' = 0
                /\ pc' = "runs"
    /\ UNCHANGED <<mergeIdle, body_paras, merge_count, returned>>

\* One pass of the body of "while i < len(run_texts)".
MergeScan ==
    /\ pc = "runs"
    /\ scan_i < Len(run_texts)
    /\ IF Mergeable(run_texts, scan_i)
       THEN LET runs == MergeAt(body_paras[para_i], run_texts, scan_i)
            IN  /\ body_paras' = [body_paras EXCEPT ![para_i] = runs]
                /\ run_texts' = BuildRunTexts(runs)
                /\ merge_count' = merge_count + 1
                /\ UNCHANGED scan_i
       ELSE /\ scan_i' = scan_i + 1
            /\ UNCHANGED <<body_paras, run_texts, merge_count>>
    /\ UNCHANGED <<mergeIdle, para_i, returned, pc>>

\* The while loop ends: i = len(run_texts).
MergeScanned ==
    /\ pc = "runs"
    /\ scan_i >= Len(run_texts)
    /\ pc' = "paragraphs"
    /\ UNCHANGED <<mergeIdle, mergeVars>>

\* return count
MergeReturn ==
    /\ pc = "paragraphs"
    /\ para_i = Len(body_paras)
    /\ returned' = Append(returned, merge_count)
    /\ pc' = "merged"
    /\ UNCHANGED <<mergeIdle, body_paras, para_i, run_texts, scan_i,
                   merge_count>>

-----------------------------------------------------------------------------
(* tag-template.py: get_cell_text, set_cell_text, clone_row_as_command.    *)
(* A cell is a record of its w:tcPr and its w:p children; a paragraph is   *)
(* the sequence of its children that hold text: a w:r, or a w:hyperlink    *)
(* whose runs are not children of the paragraph.  A row is a record of     *)
(* its identity and its w:tc children.                                     *)

\* "".join(t.text for t in cell.iter(w:t) if t.text)
get_cell_text(cell) ==
    Concat([p \in 1..Len(cell.paras) |->
               Concat([k \in 1..Len(cell.paras[p]) |->
                          Get(cell.paras[p][k].t, <<>>)])])

\* The first paragraph after set_cell_text: a paragraph without a w:r
\* child gets a new run with the text as its last child; otherwise the
\* text is set on the first w:r child and the other w:r children are
\* removed.
SetParaText(para, new_text) ==
    LET runs == {k \in 1..Len(para) : para[k].kind = "r"}
    IN  IF runs = {}
        THEN Append(para, [kind |-> "r", t |-> new_text])
        ELSE LET first == CHOOSE k \in runs : \A j \in runs : k <= j
                 set == [para EXCEPT ![first].t = new_text]
                 rest == [k \in 1..Len(para) |->
                             IF k \in runs /\ k # first
                             THEN [kind |-> "removed", t |-> NoAttr]
                             ELSE set[k]]
                 Stays(c) == c.kind # "removed"
             IN  SelectSeq(rest, Stays)

\* A cell without a w:p child is returned as it is; otherwise the text is
\* set in the first paragraph and the other paragraphs are removed.
set_cell_text(cell, new_text) ==
    IF cell.paras = <<>>
    THEN cell
    ELSE [cell EXCEPT !.paras = <<SetParaText(cell.paras[1], new_text)>>]

\* copy.deepcopy gives an element of the same content and a new identity.
NewElement(el, id) == [el EXCEPT !.id = id]

\* new_row = copy.deepcopy(row), with the command text in cell 0 and ""
\* in the others.  The content of the copy; its caller gives the identity.
clone_row_as_command(row, command_text) ==
    [row EXCEPT !.cells =
        [i \in 1..Len(row.cells) |->
            IF i = 1
            THEN set_cell_text(row.cells[i], command_text)
            ELSE set_cell_text(row.cells[i], <<>>)]]

\* for_row = clone_row_as_command(data_row, command_text), on its own.
CloneRow ==
    /\ tagIn.fn = "clone_row_as_command"
    /\ pc = "start"
    /\ new_row' =
           <<NewElement(clone_row_as_command(t_children[1],
                                             tagIn.command_text),
                        Len(t_children) + 1)>>
    /\ pc' = "cloned"
    /\ UNCHANGED <<inspectVars, tagIn, mergeVars, t_children, tagged>>

-----------------------------------------------------------------------------
(* tag-template.py: the loop tables T63 and T68 of tag_module_descriptors  *)
(* and T55 of tag_assessment_strategy.  t_children is list(t): the         *)
(* children of the table in document order, the w:tr among them.           *)

\* "{FOR mimlo IN $module.mimlos}"
ForT63 ==
    <<"{", "F", "O", "R", " ", "m", "i", "m", "l", "o", " ", "I", "N", " ",
      "$", "m", "o", "d", "u", "l", "e", ".", "m", "i", "m", "l", "o", "s",
      "}">>

\* "{END-FOR mimlo}"
EndForT63 ==
    <<"{", "E", "N", "D", "-", "F", "O", "R", " ", "m", "i", "m", "l", "o",
      "}">>

\* "{$mimlo.index}. {$mimlo.text}", "{$mimlo.relatedPlos}"
DataT63 ==
    <<
      <<"{", "$", "m", "i", "m", "l", "o", ".", "i", "n", "d", "e", "x",
        "}", ".", " ", "{", "$", "m", "i", "m", "l", "o", ".", "t", "e",
        "x", "t", "}">>,
      <<"{", "$", "m", "i", "m", "l", "o", ".", "r", "e", "l", "a", "t",
        "e", "d", "P", "l", "o", "s", "}">>
    >>

\* "{FOR asmt IN $module.assessments}"
ForT68 ==
    <<"{", "F", "O", "R", " ", "a", "s", "m", "t", " ", "I", "N", " ", "$",
      "m", "o", "d", "u", "l", "e", ".", "a", "s", "s", "e", "s", "s", "m",
      "e", "n", "t", "s", "}">>

\* "{END-FOR asmt}"
EndForT68 ==
    <<"{", "E", "N", "D", "-", "F", "O", "R", " ", "a", "s", "m", "t", "}">>

\* "{$asmt.mimloText}", "{$asmt.title}", "{$asmt.weighting}%"
DataT68 ==
    <<
      <<"{", "$", "a", "s", "m", "t", ".", "m", "i", "m", "l", "o", "T",
        "e", "x", "t", "}">>,
      <<"{", "$", "a", "s", "m", "t", ".", "t", "i", "t", "l", "e", "}">>,
      <<"{", "$", "a", "s", "m", "t", ".", "w", "e", "i", "g", "h", "t",
        "i", "n", "g", "}", "%">>
    >>

\* "{FOR plo IN ploAssessmentMap}"
ForT55 ==
    <<"{", "F", "O", "R", " ", "p", "l", "o", " ", "I", "N", " ", "p", "l",
      "o", "A", "s", "s", "e", "s", "s", "m", "e", "n", "t", "M", "a", "p",
      "}">>

\* "{END-FOR plo}"
EndForT55 ==
    <<"{", "E", "N", "D", "-", "F", "O", "R", " ", "p", "l", "o", "}">>

\* "PLO {$plo.index}", "{$plo.moduleMimloText}", "{$plo.assessmentTechniques}", "{$plo.weightings}"
DataT55 ==
    <<
      <<"P", "L", "O", " ", "{", "$", "p", "l", "o", ".", "i", "n", "d",
        "e", "x", "}">>,
      <<"{", "$", "p", "l", "o", ".", "m", "o", "d", "u", "l", "e", "M",
        "i", "m", "l", "o", "T", "e", "x", "t", "}">>,
      <<"{", "$", "p", "l", "o", ".", "a", "s", "s", "e", "s", "s", "m",
        "e", "n", "t", "T", "e", "c", "h", "n", "i", "q", "u", "e", "s",
        "}">>,
      <<"{", "$", "p", "l", "o", ".", "w", "e", "i", "g", "h", "t", "i",
        "n", "g", "s", "}">>
    >>

LoopTables == {"T63", "T68", "T55"}

ForCommand(fn) ==
    IF fn = "T63" THEN ForT63 ELSE IF fn = "T68" THEN ForT68 ELSE ForT55

EndForCommand(fn) ==
    IF fn = "T63" THEN EndForT63
    ELSE IF fn = "T68" THEN EndForT68 ELSE EndForT55

DataTexts(fn) ==
    IF fn = "T63" THEN DataT63 ELSE IF fn = "T68" THEN DataT68 ELSE DataT55

\* The rows before the data row: "len(rows63) > 2", "len(rows68) > 2",
\* "len(rows) > 3".
HeaderRows(fn) == IF fn = "T55" THEN 3 ELSE 2

\* tbl.findall("w:tr")
get_rows(children) ==
    LET IsRow(c) == c.kind = "tr"
    IN  SelectSeq(children, IsRow)

\* list(t).index(el), counted from 1
IndexOf(children, id) ==
    CHOOSE k \in 1..Len(children) :
        /\ children[k].id = id
        /\ \A j \in 1..(k - 1) : children[j].id # id

\* t.insert(k - 1, el)
InsertAt(children, k, el) ==
    SubSeq(children, 1, k - 1) \o <<el>> \o SubSeq(children, k, Len(children))

\* if len(cells) >= n: set_cell_text(cells[j], text) for each data text
SetDataTexts(row, texts) ==
    IF Len(row.cells) >= Len(texts)
    THEN [row EXCEPT !.cells =
             [j \in 1..Len(row.cells) |->
                 IF j <= Len(texts)
                 THEN set_cell_text(row.cells[j], texts[j])
                 ELSE row.cells[j]]]
    ELSE row

\* The END-FOR row inserted at the index of the data row, not after it.
InsertCommandRows_NoOffset(children, data_id, for_row, endfor_row) ==
    LET withFor == InsertAt(children, IndexOf(children, data_id), for_row)
    IN  InsertAt(withFor, IndexOf(withFor, data_id), endfor_row)

\* The children after the two inserts: the FOR row at the index of the
\* data row, the END-FOR row at the index after it.
InsertCommandRows(children, data_id, for_row, endfor_row) ==
    LET withFor == InsertAt(children, IndexOf(children, data_id), for_row)
    IN  InsertAt(withFor, IndexOf(withFor, data_id) + 1, endfor_row)

\* row not in (rows[0], ..., for_row, data_row, endfor_row): elements
\* compare by identity.
Extra(row, keep) == row.id \notin keep

\* for row in get_rows(t): if row not in (...): t.remove(row)
RemoveExtra(children, keep) ==
    LET Stays(c) == c.kind # "tr" \/ ~Extra(c, keep)
    IN  SelectSeq(children, Stays)

\* The block of a loop table up to its log line: the clones, the data
\* texts and the two inserts, or nothing on a table of too few rows.
TagLoopTable ==
    /\ tagIn.fn \in LoopTables
    /\ pc = "start"
    /\ LET rows == get_rows(t_children)
           h == HeaderRows(tagIn.fn)
       IN  IF Len(rows) > h
           THEN LET data_row == rows[h + 1]
                    for_row ==
                        NewElement(
                            clone_row_as_command(data_row,
                                                 ForCommand(tagIn.fn)),
                            Len(t_children) + 1)
                    endfor_row ==
                        NewElement(
                            clone_row_as_command(data_row,
                                                 EndForCommand(tagIn.fn)),
                            Len(t_children) + 2)
                    k == IndexOf(t_children, data_row.id)
                    set == [t_children EXCEPT
                               ![k] = SetDataTexts(@, DataTexts(tagIn.fn))]
                IN  /\ t_children' =
                           InsertCommandRows(set, data_row.id, for_row,
                                             endfor_row)
                    /\ tagged' = [rows |-> [j \in 1..h |-> rows[j].id],
                                  for_row |-> for_row.id,
                                  data_row |-> data_row.id,
                                  endfor_row |-> endfor_row.id]
                    /\ new_row' = <<for_row, endfor_row>>
                    /\ pc' = "inserted"
           ELSE /\ pc' = "tagged"
                /\ UNCHANGED <<t_children, tagged, new_row>>
    /\ UNCHANGED <<inspectVars, tagIn, mergeVars>>

\* The loop that removes the rows after the END-FOR row.
RemoveExtraRows ==
    /\ pc = "inserted"
    /\ LET keep == {tagged.rows[j] : j \in 1..Len(tagged.rows)}
                   \cup {tagged.for_row, tagged.data_row, tagged.endfor_row}
       IN  t_children' = RemoveExtra(t_children, keep)
    /\ pc' = "tagged"
    /\ UNCHANGED <<inspectVars, tagIn, mergeVars, new_row, tagged>>

NextTag ==
    \/ MergeCall
    \/ MergeNextPara
    \/ MergeScan
    \/ MergeScanned
    \/ MergeReturn
    \/ CloneRow
    \/ TagLoopTable
    \/ RemoveExtraRows

-----------------------------------------------------------------------------
(* The bodies, rows and tables that tag-template.py is given.              *)

MaxMergeRuns == 5

\* Run texts: an opening brace, a closing brace with a trailing space, a
\* name, and a text with a space in it.
MergeTexts == {<<"{">>, <<"}", " ">>, <<"a">>, <<"b", " ", "c">>}

MergeRuns(ts) == [k \in 1..Len(ts) |-> Run(k, ts[k])]

MergeParas == {MergeRuns(ts) : ts \in SeqsUpTo(MergeTexts, MaxMergeRuns)}

\* A split field, a single run without a w:t, and a name before a run
\* without a w:t.
pField == MergeRuns(<<<<" ", "{">>, <<"a">>, <<"}">>>>)
pNoText == MergeRuns(<<NoAttr>>)
pName == MergeRuns(<<<<"a">>, NoAttr>>)

MergeBodies ==
    {<<p>> : p \in MergeParas}
    \cup {<<p, q>> : p \in {pField, pNoText, pName},
                     q \in {pField, pNoText, pName}}

InitMerge ==
    /\ \E b \in MergeBodies :
          /\ tagIn = [NoTag EXCEPT !.fn = "merge_split_runs", !.body = b]
          /\ body_paras = b
    /\ t_children = <<>>

MaxCells == 3

TcPr(w, type, gridSpan) == [w |-> w, type |-> type, gridSpan |-> gridSpan]

TagRun(text) == [kind |-> "r", t |-> text]
TagLink(text) == [kind |-> "hyperlink", t |-> text]
TagCell(tcPr, paras) == [tcPr |-> tcPr, paras |-> paras]

narrow == TcPr("2000", "dxa", NoAttr)
wide == TcPr("50", "pct", "2")

\* One run in one paragraph.
cPlain == TagCell(narrow, <<<<TagRun(<<"A">>)>>>>)
\* Two runs in the first paragraph and a second paragraph.
cSplit ==
    TagCell(wide, <<<<TagRun(<<"A">>), TagRun(<<"B">>)>>,
                     <<TagRun(<<"C">>)>>>>)
\* A paragraph without a run.
cEmpty == TagCell(narrow, <<<<>>>>)
\* A run without a w:t, in a cell without a w:tcPr.
cNoText == TagCell(NoAttr, <<<<TagRun(NoAttr)>>>>)
\* A run and a hyperlink.
cLink == TagCell(wide, <<<<TagRun(<<"A">>), TagLink(<<"B">>)>>>>)
\* No paragraph.
cNoPara == TagCell(narrow, <<>>)

TagCells == {cPlain, cSplit, cEmpty, cNoText, cLink, cNoPara}

Tr(id, cells) == [kind |-> "tr", id |-> id, cells |-> cells]
Other(kind, id) == [kind |-> kind, id |-> id, cells |-> <<>>]

CloneCommands == {ForT63, EndForT63}

InitClone ==
    /\ \E cells \in SeqsUpTo(TagCells, MaxCells), c \in CloneCommands :
          /\ tagIn = [NoTag EXCEPT !.fn = "clone_row_as_command",
                                   !.row = Tr(1, cells),
                                   !.command_text = c]
          /\ t_children = <<Tr(1, cells)>>
    /\ body_paras = <<>>

MaxRows == 5

\* Rows of two cells, of four cells, and of one cell without a paragraph.
RowShapes ==
    { <<cPlain, cSplit>>,
      <<cPlain, cLink, cEmpty, cNoText>>,
      <<cNoPara>> }

\* The children before the rows: none, or w:tblPr and w:tblGrid.
Leading == {<<>>, <<"tblPr", "tblGrid">>}

ChildrenOf(lead, shapes) ==
    [k \in 1..(Len(lead) + Len(shapes)) |->
        IF k <= Len(lead)
        THEN Other(lead[k], k)
        ELSE Tr(k, shapes[k - Len(lead)])]

LoopTableInputs ==
    {ChildrenOf(lead, shapes) :
        lead \in Leading, shapes \in SeqsUpTo(RowShapes, MaxRows)}

InitLoopTable ==
    /\ \E fn \in LoopTables, t \in LoopTableInputs :
          /\ tagIn = [NoTag EXCEPT !.fn = fn, !.table = t]
          /\ t_children = t
    /\ body_paras = <<>>

InitTag ==
    /\ InitLocals
    /\ InitTagLocals
    /\ action = "tag"
    /\ tplFile \in {File(<<>>)}
    /\ outFile \in {File(<<>>)}
    /\ InitMerge \/ InitClone \/ InitLoopTable

SpecTag == InitTag /\ [][NextTag]_vars

-----------------------------------------------------------------------------
(* Properties.                                                             *)

Loaded == pc \notin {"start", "raised", "exit"}
AfterTables == pc \in {"loops", "rows", "report", "done"}
AfterLoops == pc \in {"rows", "report", "done"}
AfterRows == pc \in {"report", "done"}

\* The kinds of issue of the matched-pair comparison.
PairKinds ==
    {"grid mismatch", "tblW mismatch", "cell count", "width", "gridSpan"}

\* The issues of the given kinds at table t, row r, cell c.
IssuesAt(kinds, t, r, c) ==
    {k \in 1..Len(issues) :
        /\ issues[k].kind \in kinds
        /\ issues[k].t = t /\ issues[k].r = r /\ issues[k].c = c}

\* The issues of the given kinds about table t.
IssuesOfTable(kinds, t) ==
    {k \in 1..Len(issues) : issues[k].kind \in kinds /\ issues[k].t = t}

TplLabel(ti) == _table_label(tpl_tables[ti + 1])
OutLabel(oi) == _table_label(out_tables[oi + 1])
TplIndices == 0..(Len(tpl_tables) - 1)
OutIndices == 0..(Len(out_tables) - 1)

\* The template tables that cmd_compare pairs with an output table.
Paired == {ti \in TplIndices : MatchOf(tpl_tables, out_tables, ti) # -1}
Partner(ti) == MatchOf(tpl_tables, out_tables, ti)

\* The kind the command grammar gives each example.
ExampleKind(text) ==
    CASE text = <<"{", "F", "O", "R", " ", "x", " ", "I", "N", " ", "y", "}">> -> "FOR"
      [] text = <<"{", "E", "N", "D", "-", "F", "O", "R", " ", "x", "}">> -> "END-FOR"
      [] text = <<"{", "E", "N", "D", "-", "I", "F", "}">> -> "END-IF"
      [] text = <<"{", "I", "F", " ", "c", "o", "n", "d", "}">> -> "IF"
      [] text = <<"{", "I", "N", "S", " ", "x", "}">> -> "INS"
      [] text = <<"{", "f", "i", "e", "l", "d", "_", "n", "a", "m", "e", "}">> -> "field"
      [] text = <<"{", "F", "O", "R", "f", "o", "o", "}">> -> "field"
      [] OTHER -> "none"

\* The kind of a trimmed command text, rule by rule.
KindByRule(raw, kind) ==
    /\ kind = "FOR" <=> StartsWith(raw, sFORsp)
    /\ kind = "END-FOR" <=> StartsWith(raw, sENDFOR)
    /\ kind = "IF" <=> StartsWith(raw, sIFsp)
    /\ kind = "END-IF" <=> raw = sENDIF
    /\ kind = "INS" <=> StartsWith(raw, sINSsp)
    /\ kind = "field" <=>
           ~(\/ StartsWith(raw, sFORsp) \/ StartsWith(raw, sENDFOR)
             \/ StartsWith(raw, sIFsp) \/ raw = sENDIF
             \/ StartsWith(raw, sINSsp))

ClassifiedByRule(paras, cmds) ==
    /\ \A k \in 1..Len(cmds) : KindByRule(cmds[k].raw, cmds[k].type)
    /\ \A p \in 1..Len(paras) :
           ExampleKind(paras[p].text) # "none" =>
               \E k \in 1..Len(cmds) :
                   /\ cmds[k].para = paras[p].i
                   /\ cmds[k].type = ExampleKind(paras[p].text)
                   /\ \A j \in 1..Len(cmds) : cmds[j].para = paras[p].i => j = k

\* C1: every command find_commands returns has the kind of the first rule its
\* trimmed text satisfies (FOR, END-FOR, IF, END-IF, INS, otherwise field),
\* and each example of the grammar yields one command of the stated kind.
C1_Classification ==
    Loaded => /\ ClassifiedByRule(out_paras, out_cmds)
              /\ ClassifiedByRule(tpl_paras, tpl_cmds)

\* C1 witness: the output held the runs "{FOR" and " }", the command text
\* was trimmed to "FOR" and classified field.
C1_Witness ==
    /\ pc = "done"
    /\ Len(out_paras) = 1 /\ Len(out_paras[1].runs) = 2
    /\ \E k \in 1..Len(out_cmds) :
           /\ out_cmds[k].raw = <<"F", "O", "R">>
           /\ out_cmds[k].type = "field"

\* A self-comparison of a document without commands.
SelfComparison == tplFile = outFile /\ Loaded /\ out_cmds = <<>>

Overlap(ti) ==
    Min(Len(tpl_tables[ti + 1].rows), Len(out_tables[Partner(ti) + 1].rows))

RowCountsDiffer(ti) ==
    Len(tpl_tables[ti + 1].rows) # Len(out_tables[Partner(ti) + 1].rows)

\* The issues of the pair of ti about a row at or beyond the overlap.
BeyondOverlap(ti) ==
    {k \in IssuesOfTable(PairKinds, ti) : issues[k].r >= Overlap(ti)}

\* C3 as stated: a matched pair with different numbers of rows gets exactly
\* one issue for the rows beyond the overlap, and it is not a per-cell issue.
C3_OneRowLevelIssue ==
    AfterTables =>
        \A ti \in Paired :
            RowCountsDiffer(ti) =>
                /\ Cardinality(BeyondOverlap(ti)) = 1
                /\ \A k \in BeyondOverlap(ti) : issues[k].c = -1

\* C3 amended: a matched pair with different numbers of rows gets no issue
\* at all for a row at or beyond the overlap, neither row-level nor per-cell:
\* the length mismatch itself is not reported.
C3_NoIssueBeyondOverlap ==
    AfterTables =>
        \A ti \in Paired : RowCountsDiffer(ti) => BeyondOverlap(ti) = {}

\* C3 witness: a pair with different numbers of rows was compared and its
\* overlapping rows produced issues.
C3_Witness ==
    /\ AfterTables
    /\ \E ti \in Paired :
           /\ RowCountsDiffer(ti)
           /\ \E k \in IssuesOfTable(PairKinds, ti) : issues[k].r >= 0

\* The cells (ti, ri, ci) of the overlapping rows with equal cell counts.
ComparedCells ==
    UNION {
        UNION {
            IF Len(tpl_tables[ti + 1].rows[ri + 1])
                 = Len(out_tables[Partner(ti) + 1].rows[ri + 1])
            THEN {<<ti, ri, ci>> :
                     ci \in 0..(Len(tpl_tables[ti + 1].rows[ri + 1]) - 1)}
            ELSE {}
            : ri \in 0..(Overlap(ti) - 1)}
        : ti \in Paired}

TplCell(x) == CellInfo(tpl_tables[x[1] + 1].rows[x[2] + 1][x[3] + 1])
OutCell(x) == CellInfo(out_tables[Partner(x[1]) + 1].rows[x[2] + 1][x[3] + 1])

WidthDiffers(x) ==
    TplCell(x).w # OutCell(x).w \/ TplCell(x).type # OutCell(x).type
SpanDiffers(x) == TplCell(x).span # OutCell(x).span

\* C4 as stated: a compared cell gets exactly one issue when its (width,
\* unit-kind, span) triples differ and none when they are equal.
C4_OneIssuePerCell ==
    AfterTables =>
        \A x \in ComparedCells :
            Cardinality(IssuesAt(PairKinds, x[1], x[2], x[3]))
                = IF WidthDiffers(x) \/ SpanDiffers(x) THEN 1 ELSE 0

\* C4 amended: a compared cell gets one width issue exactly when the width
\* or the unit-kind differs and one gridSpan issue exactly when the span
\* differs: two issues when both differ, none when the triples are equal.
C4_IssuePerDifference ==
    AfterTables =>
        \A x \in ComparedCells :
            /\ Cardinality(IssuesAt({"width"}, x[1], x[2], x[3]))
                   = IF WidthDiffers(x) THEN 1 ELSE 0
            /\ Cardinality(IssuesAt({"gridSpan"}, x[1], x[2], x[3]))
                   = IF SpanDiffers(x) THEN 1 ELSE 0
            /\ IssuesAt(PairKinds, x[1], x[2], x[3])
                   = IssuesAt({"width", "gridSpan"}, x[1], x[2], x[3])

\* C4 witness: one compared cell differed in width and span and got two
\* issues, another differed in the span only and got one.
C4_Witness ==
    /\ AfterTables
    /\ \E x \in ComparedCells :
           /\ WidthDiffers(x) /\ SpanDiffers(x)
           /\ Cardinality(IssuesAt(PairKinds, x[1], x[2], x[3])) = 2
    /\ \E x \in ComparedCells :
           /\ ~WidthDiffers(x) /\ SpanDiffers(x)
           /\ Cardinality(IssuesAt(PairKinds, x[1], x[2], x[3])) = 1

\* The output tables whose label is L.
WithLabel(L) == {oi \in OutIndices : OutLabel(oi) = L}

\* C5: _find_table_in_output returns the least index of an output table
\* whose label equals the template label and None (-1) when there is none;
\* a template table without a match adds no issue and is not counted.
C5_FirstMatch ==
    /\ Loaded =>
           \A ti \in TplIndices :
               LET L == TplLabel(ti)
                   r == _find_table_in_output(out_tables, L,
                            _table_grid(tpl_tables[ti + 1]))
               IN  IF WithLabel(L) = {} THEN r = -1
                   ELSE /\ r \in WithLabel(L)
                        /\ \A oi \in WithLabel(L) : r <= oi
    /\ AfterTables =>
           /\ \A ti \in TplIndices :
                  WithLabel(TplLabel(ti)) = {} =>
                      IssuesOfTable(PairKinds, ti) = {}
           /\ matched <=
                  Cardinality({ti \in TplIndices : WithLabel(TplLabel(ti)) # {}})

\* C5 witness: the output held two tables with the label of template table 0,
\* which was paired with the first, and template table 1 had no match.
C5_Witness ==
    /\ AfterTables
    /\ Len(tpl_tables) = 2
    /\ WithLabel(TplLabel(0)) = {0, 1}
    /\ out_tables[1] # out_tables[2]
    /\ Partner(0) = 0
    /\ WithLabel(TplLabel(1)) = {}
    /\ matched = 1

\* The label looks like an unexpanded loop construct.
LoopLabel(L) == Contains(L, sBraceFOR) \/ Contains(L, sBraceDollar)

\* C6: a template table whose label contains "{FOR" or "{$" is never paired,
\* gets no matched-pair issue and is not counted in matched, also when an
\* output table has the same label.
C6_LoopLabelSkipped ==
    AfterTables =>
        /\ \A ti \in TplIndices :
               LoopLabel(TplLabel(ti)) =>
                   /\ ti \notin Paired
                   /\ IssuesOfTable(PairKinds, ti) = {}
        /\ matched <=
               Cardinality({ti \in TplIndices : ~LoopLabel(TplLabel(ti))})

\* C6 witness: a template table labelled with "{$" and one labelled with
\* "{FOR" both had an output table of the same label and were not counted.
C6_Witness ==
    /\ AfterTables
    /\ Len(tpl_tables) = 2
    /\ Contains(TplLabel(0), sBraceDollar) /\ ~Contains(TplLabel(0), sBraceFOR)
    /\ Contains(TplLabel(1), sBraceFOR)
    /\ WithLabel(TplLabel(0)) # {} /\ WithLabel(TplLabel(1)) # {}
    /\ matched = 0

\* The table has no grid declaration.
NoGrid(tbl) == tbl.grid = <<>>

\* C7 as stated: a table without a grid never causes a row-span issue and
\* never causes a grid issue, in the matched-pair comparison, in the loop
\* check and in the row-span validation.
C7_EmptyGridUnknown ==
    pc = "done" =>
        /\ \A ti \in Paired :
               (NoGrid(tpl_tables[ti + 1])
                  \/ NoGrid(out_tables[Partner(ti) + 1])) =>
                   IssuesOfTable({"grid mismatch"}, ti) = {}
        /\ \A oi \in OutIndices :
               NoGrid(out_tables[oi + 1]) =>
                   IssuesOfTable({"span", "FOR grid differs"}, oi) = {}

\* The part of C7 the code keeps: a table without a grid gets no row-span
\* issue and no grid issue of the loop check.
C7_EmptyGridNoSpanIssue ==
    pc = "done" =>
        \A oi \in OutIndices :
            NoGrid(out_tables[oi + 1]) =>
                IssuesOfTable({"span", "FOR grid differs"}, oi) = {}

\* The output tables with the grid of output table oi.
SameGrid(oi) ==
    {oj \in OutIndices :
        _table_grid(out_tables[oj + 1]) = _table_grid(out_tables[oi + 1])}

ForKinds == {"FOR grid differs", "FOR cell count"}

\* The tables that some reported family contains.
InFamily ==
    {oi \in OutIndices :
        \E f \in 1..Len(families) :
            \E k \in 1..Len(families[f].indices) : families[f].indices[k] = oi}

\* C8: output tables that share a grid are a loop-expansion family exactly
\* when they are three or more; a group of one or two is not reported and
\* gets no FOR-expanded issue.
C8_FamilyThreshold ==
    AfterLoops =>
        /\ \A oi \in OutIndices :
               /\ oi \in InFamily <=> Cardinality(SameGrid(oi)) >= 3
               /\ Cardinality(SameGrid(oi)) <= 2 =>
                      IssuesOfTable(ForKinds, oi) = {}
        /\ \A f \in 1..Len(families) :
               /\ {families[f].indices[k] : k \in 1..Len(families[f].indices)}
                      = SameGrid(families[f].indices[1])
               /\ \E k \in 1..Len(printed) :
                      printed[k] = Line("instances", Len(families[f].indices),
                                        families[f].indices[1])
        /\ Cardinality({k \in 1..Len(printed) : printed[k][1] = "instances"})
               = Len(families)

\* C8 witness: three output tables shared a grid, were reported as one family
\* and a member got a FOR-expanded issue.
C8_Witness ==
    /\ AfterLoops
    /\ Len(out_tables) = 3
    /\ Len(families) = 1
    /\ Len(families[1].indices) = 3
    /\ \E k \in 1..Len(issues) : issues[k].kind = "FOR cell count"

\* The members of family f other than its first table.
Members(f) ==
    {families[f].indices[k] : k \in 2..Len(families[f].indices)}
Reference(f) == families[f].indices[1]
OutRows(oi) == out_tables[oi + 1].rows

\* The rows of member idx, up to the reference's length, whose cell count
\* differs from the reference row's.
DivergentRows(ref, idx) ==
    {ri \in 0..(Min(Len(OutRows(ref)), Len(OutRows(idx))) - 1) :
        Len(OutRows(ref)[ri + 1]) # Len(OutRows(idx)[ri + 1])}

\* C9 as stated: every member of a family is compared with the first member
\* over the overlapping rows, and every row whose cell count differs gets one
\* FOR-expanded cell-count issue, also when the row counts differ.
C9_MembersComparedOnOverlap ==
    AfterLoops =>
        \A f \in 1..Len(families) :
            /\ \A oi \in Members(f) : Reference(f) < oi
            /\ \A idx \in Members(f) :
                   \A ri \in DivergentRows(Reference(f), idx) :
                       Cardinality(IssuesAt({"FOR cell count"}, idx, ri, -1)) = 1

\* C9 amended: the first member is the reference, and a member is compared
\* with it only when it has the same number of rows: then every row whose
\* cell count differs gets one FOR-expanded cell-count issue and the other
\* rows none; a member with a different number of rows gets no issue.
C9_MembersComparedOnEqualLength ==
    AfterLoops =>
        \A f \in 1..Len(families) :
            /\ \A oi \in Members(f) : Reference(f) < oi
            /\ IssuesOfTable({"FOR cell count"}, Reference(f)) = {}
            /\ \A idx \in Members(f) :
                   IF Len(OutRows(idx)) = Len(OutRows(Reference(f)))
                   THEN \A ri \in 0..(Len(OutRows(idx)) - 1) :
                            Cardinality(IssuesAt({"FOR cell count"}, idx, ri, -1))
                                = IF ri \in DivergentRows(Reference(f), idx)
                                  THEN 1 ELSE 0
                   ELSE IssuesOfTable({"FOR cell count"}, idx) = {}

\* C9 witness: a family had a member with the reference's number of rows and
\* a divergent row, reported, and a member with another number of rows and a
\* divergent row, not reported.
C9_Witness ==
    /\ AfterLoops
    /\ \E f \in 1..Len(families) :
           /\ \E idx \in Members(f) :
                  /\ Len(OutRows(idx)) = Len(OutRows(Reference(f)))
                  /\ DivergentRows(Reference(f), idx) # {}
                  /\ IssuesOfTable({"FOR cell count"}, idx) # {}
           /\ \E idx \in Members(f) :
                  /\ Len(OutRows(idx)) # Len(OutRows(Reference(f)))
                  /\ DivergentRows(Reference(f), idx) # {}
                  /\ IssuesOfTable({"FOR cell count"}, idx) = {}

RECURSIVE DeclaredSpans(_)
\* The sum of the spans the cells of a row declare, 1 for a cell without.
DeclaredSpans(row) ==
    IF row = <<>> THEN 0
    ELSE (IF Head(row).gridSpan = <<>> THEN 1 ELSE Head(row).gridSpan[1])
         + DeclaredSpans(Tail(row))

\* The rows of output table oi whose spans do not sum to its column count.
BrokenRows(oi) ==
    {ri \in 0..(Len(OutRows(oi)) - 1) :
        DeclaredSpans(OutRows(oi)[ri + 1]) # Len(out_tables[oi + 1].grid)}

RECURSIVE SumOver(_, _)
SumOver(F(_), S) ==
    IF S = {} THEN 0
    ELSE LET x == CHOOSE y \in S : TRUE IN F(x) + SumOver(F, S \ {x})

BrokenCount(oi) ==
    IF NoGrid(out_tables[oi + 1]) THEN 0 ELSE Cardinality(BrokenRows(oi))

\* C10: an output table with a grid gets one row-span issue for each row
\* whose spans do not sum to the number of grid columns and none for the
\* other rows, and row_issues_count is the number of such rows.
C10_RowSpan ==
    AfterRows =>
        /\ \A oi \in OutIndices :
               ~NoGrid(out_tables[oi + 1]) =>
                   /\ \A ri \in 0..(Len(OutRows(oi)) - 1) :
                          Cardinality(IssuesAt({"span"}, oi, ri, -1))
                              = IF ri \in BrokenRows(oi) THEN 1 ELSE 0
                   /\ Cardinality(IssuesOfTable({"span"}, oi))
                          = Cardinality(BrokenRows(oi))
        /\ row_issues_count = SumOver(BrokenCount, OutIndices)

\* C10 witness: an output table with a grid had a row that sums to the
\* column count through a declared span, without an issue, and a row that
\* does not, with one; another table had no broken row.
C10_Witness ==
    /\ AfterRows
    /\ \E oi \in OutIndices :
           /\ ~NoGrid(out_tables[oi + 1])
           /\ \E ri \in BrokenRows(oi) :
                  Cardinality(IssuesAt({"span"}, oi, ri, -1)) = 1
           /\ \E ri \in 0..(Len(OutRows(oi)) - 1) :
                  /\ ri \notin BrokenRows(oi)
                  /\ \E c \in 1..Len(OutRows(oi)[ri + 1]) :
                         OutRows(oi)[ri + 1][c].gridSpan # <<>>
    /\ \E oi \in OutIndices :
           ~NoGrid(out_tables[oi + 1]) /\ BrokenRows(oi) = {}
    /\ row_issues_count >= 1

-----------------------------------------------------------------------------
(* Footnote references.                                                    *)

AfterResidual ==
    pc \in {"footnotes", "tables", "loops", "rows", "report", "done"}
AfterFootnotes == pc \in {"tables", "loops", "rows", "report", "done"}

\* The id of the k-th footnoteReference element of the output.
RefId(k) ==
    IF outFile.fnRefs[k] = NoAttr THEN sQuestion ELSE outFile.fnRefs[k]
ReferencedIds == {RefId(k) : k \in 1..Len(outFile.fnRefs)}
Occurrences(fid) ==
    Cardinality({k \in 1..Len(outFile.fnRefs) : RefId(k) = fid})

\* The issues of a kind that name the id.
IssuesNaming(kind, fid) ==
    {k \in 1..Len(issues) : issues[k].kind = kind /\ issues[k].msg[1] = fid}
IssuesOfKind(kind) == {k \in 1..Len(issues) : issues[k].kind = kind}

\* C11: once the footnote section has run, every id that the output
\* references more than once has exactly one duplicate issue, which names
\* its number of occurrences, every id referenced once has none, and no
\* duplicate issue is about anything else.
C11_DuplicatePerIdentifier ==
    AfterFootnotes =>
        /\ \A fid \in ReferencedIds :
               /\ Cardinality(IssuesNaming("footnote duplicate", fid))
                      = IF Occurrences(fid) > 1 THEN 1 ELSE 0
               /\ \A k \in IssuesNaming("footnote duplicate", fid) :
                      issues[k].msg[2] = Occurrences(fid)
        /\ \A k \in IssuesOfKind("footnote duplicate") :
               issues[k].msg[1] \in ReferencedIds

\* C11 witness: the references "3", "3", "4" gave one duplicate issue, for
\* "3" with the count 2.
C11_Witness ==
    /\ AfterFootnotes
    /\ outFile.fnRefs = <<id3, id3, id4>>
    /\ Cardinality(IssuesOfKind("footnote duplicate")) = 1
    /\ \E k \in IssuesNaming("footnote duplicate", id3) :
           issues[k].msg[2] = 2
    /\ IssuesNaming("footnote duplicate", id4) = {}

\* The ids that the footnotes part of the output defines.
DefinedIds ==
    {outFile.footnotes.ids[k] : k \in 1..Len(outFile.footnotes.ids)}

\* Every referenced id has one dangling issue if it is not defined and none
\* if it is.
OneDanglingPerUndefinedId ==
    /\ \A fid \in ReferencedIds :
           Cardinality(IssuesNaming("footnote undefined", fid))
               = IF fid \in DefinedIds THEN 0 ELSE 1
    /\ \A k \in IssuesOfKind("footnote undefined") :
           issues[k].msg[1] \in ReferencedIds

ControlCommands ==
    {k \in 1..Len(out_cmds) :
        out_cmds[k].type \in {"FOR", "END-FOR", "IF", "END-IF", "INS"}}
SigilFields ==
    {k \in 1..Len(out_cmds) :
        /\ out_cmds[k].type = "field"
        /\ out_cmds[k].raw # <<>>
        /\ out_cmds[k].raw[1] = "$"}

\* The issues of a kind whose text is the raw text.
IssuesAbout(kind, raw) ==
    {k \in 1..Len(issues) : issues[k].kind = kind /\ issues[k].msg = <<raw>>}

\* C13: once the residual-command section has run, there are as many
\* residual-command issues as control commands in the output and as many
\* unresolved-field issues as fields of the output that start with "$",
\* each naming the raw text of its command; the commands of the template
\* add nothing.
C13_CommandResolution ==
    AfterResidual =>
        /\ Cardinality(IssuesOfKind("residual")) = Cardinality(ControlCommands)
        /\ Cardinality(IssuesOfKind("unresolved")) = Cardinality(SigilFields)
        /\ \A c \in ControlCommands :
               Cardinality(IssuesAbout("residual", out_cmds[c].raw))
                   = Cardinality({d \in ControlCommands :
                                     out_cmds[d].raw = out_cmds[c].raw})
        /\ \A c \in SigilFields :
               Cardinality(IssuesAbout("unresolved", out_cmds[c].raw))
                   = Cardinality({d \in SigilFields :
                                     out_cmds[d].raw = out_cmds[c].raw})

\* C13 witness: the template had a control command, the output only
\* "{$module.code}"; the run has one unresolved-field issue, naming that
\* text, and no residual-command issue.
C13_Witness ==
    /\ AfterResidual
    /\ \E k \in 1..Len(tpl_cmds) : tpl_cmds[k].type = "FOR"
    /\ Len(out_cmds) = 1
    /\ out_cmds[1].raw = <<"$", "m", "o", "d", "u", "l", "e", ".",
                           "c", "o", "d", "e">>
    /\ Cardinality(IssuesAbout("unresolved", out_cmds[1].raw)) = 1
    /\ Len(issues) = 1

-----------------------------------------------------------------------------
(* The issue list and the report.                                          *)

IsPrefix(a, b) == Len(a) <= Len(b) /\ SubSeq(b, 1, Len(a)) = a

\* The printed lines with a tag.
LinesTagged(tags) == {k \in 1..Len(printed) : printed[k][1] \in tags}

\* The lines of section 7 that show the issue list.
IssueLineTags == {"ISSUES FOUND", "issue", "No issues found"}

\* The sections of cmd_compare that append issues.
SectionKinds ==
    << {"residual", "unresolved"},
       {"footnote duplicate", "footnote undefined"},
       PairKinds,
       {"FOR grid differs", "FOR cell count"},
       {"span"} >>

\* The final report shows the number of issues in the list and one line for
\* each, or says that there is none.
TotalPrinted ==
    IF issues = <<>>
    THEN /\ Cardinality(LinesTagged({"No issues found"})) = 1
         /\ LinesTagged({"ISSUES FOUND", "issue"}) = {}
    ELSE /\ Cardinality(LinesTagged({"ISSUES FOUND"})) = 1
         /\ \A k \in LinesTagged({"ISSUES FOUND"}) :
                printed[k][2] = Len(issues)
         /\ Cardinality(LinesTagged({"issue"})) = Len(issues)
         /\ LinesTagged({"No issues found"}) = {}

\* C14: every step of a run leaves the issue list a prefix of the list
\* after the step, so nothing appended is ever removed, moved, merged or
\* changed; and when the run is done the total it has printed is the length
\* of the list, which is then everything the checks appended.
C14_AppendOnly ==
    /\ [][IsPrefix(issues, issues')]_vars
    /\ [](pc = "done" => TotalPrinted)

\* C14 witness: a finished run whose list holds issues of two sections, in
\* the order of the sections, and whose report shows their number.
C14_Witness ==
    /\ pc = "done"
    /\ \E a, b \in 1..Len(SectionKinds) :
           /\ a < b
           /\ \E i, j \in 1..Len(issues) :
                  /\ i < j
                  /\ issues[i].kind \in SectionKinds[a]
                  /\ issues[j].kind \in SectionKinds[b]
    /\ \E k \in LinesTagged({"ISSUES FOUND"}) : printed[k][2] = Len(issues)

ChecksFinished == pc \in {"report", "done"}

\* C15 as stated: a comparison run has printed nothing until all its
\* checks have finished.
C15_NothingPrintedBeforeChecksFinish ==
    (action = "compare" /\ printed # <<>>) => ChecksFinished

\* C15: a comparison run prints the issue list and its total only after all
\* its checks have finished; the header with the table, paragraph and
\* command counts is printed before the first check runs.
C15_IssueListPrintedAfterChecks ==
    action = "compare" =>
        /\ LinesTagged(IssueLineTags) # {} => pc = "done"
        /\ AfterResidual \/ pc = "residual" =>
               /\ Len(printed) >= 7
               /\ printed[5] = <<"Tables", Len(tpl_tables), Len(out_tables)>>
               /\ printed[6] = <<"Paragraphs", Len(tpl_paras), Len(out_paras)>>
               /\ printed[7] = <<"Commands", Len(tpl_cmds), Len(out_cmds)>>

\* C15 witness: the run has appended an issue and has checks left to run;
\* the header is printed and no line of the issue list is.
C15_Witness ==
    /\ action = "compare"
    /\ pc = "tables"
    /\ issues # <<>>
    /\ Len(printed) = 7
    /\ LinesTagged(IssueLineTags) = {}

\* The file at the path is missing, is no archive, has no main part, or
\* has a main part that does not parse.
Unreadable(file) ==
    file.status \in {"unreadable", "not-zip", "no-document", "bad-xml"}

\* C16: a comparison run on a template or an output that cannot be read
\* never leaves the start other than by raising: it prints nothing, appends
\* no issue and runs no check.
C16_FatalInputAborts ==
    (action = "compare" /\ (Unreadable(tplFile) \/ Unreadable(outFile))) =>
        /\ pc \in {"start", "raised"}
        /\ printed = <<>>
        /\ issues = <<>>
        /\ out_fn_refs = <<>> /\ matched = 0 /\ families = <<>>
        /\ row_issues_count = 0

\* C16 witness: the template was read, the main part of the output does not
\* parse, and the run has ended by raising with nothing printed.
C16_Witness ==
    /\ action = "compare"
    /\ pc = "raised"
    /\ tplFile.status = "ok" /\ tplFile.body # <<>>
    /\ outFile.status = "bad-xml"
    /\ printed = <<>> /\ issues = <<>>

-----------------------------------------------------------------------------
(* The command extractor and the single-document commands.                 *)

HasChar(s, ch) == \E k \in 1..Len(s) : s[k] = ch

\* C17 as stated: the raw text of every extracted command has no "{" and
\* no "}".
C17_NoDelimiterInRaw ==
    /\ \A k \in 1..Len(out_cmds) :
           ~HasChar(out_cmds[k].raw, "{") /\ ~HasChar(out_cmds[k].raw, "}")
    /\ \A k \in 1..Len(tpl_cmds) :
           ~HasChar(tpl_cmds[k].raw, "{") /\ ~HasChar(tpl_cmds[k].raw, "}")

\* C17, the part that holds: the raw text of every extracted command is not
\* empty and has no "}".
C17_NoClosingBraceInRaw ==
    /\ \A k \in 1..Len(out_cmds) :
           out_cmds[k].raw # <<>> => ~HasChar(out_cmds[k].raw, "}")
    /\ \A k \in 1..Len(tpl_cmds) :
           tpl_cmds[k].raw # <<>> => ~HasChar(tpl_cmds[k].raw, "}")

\* The rule for a split command, on the runs of a paragraph.
Flagged(p) ==
    /\ Len(p.runs) > 1
    /\ HasChar(p.text, "{")
    /\ \E r \in 1..Len(p.runs) :
           HasChar(p.runs[r], "{") /\ ~HasChar(p.runs[r], "}")
FlaggedParas == {k \in 1..Len(out_paras) : Flagged(out_paras[k])}

SplitsDone == action = "splits" /\ pc = "exit"
OverviewDone == action = "overview" /\ pc = "exit"

\* C18: cmd_splits lists a paragraph, once and with its runs as they are in
\* the document, exactly when it has more than one run, a "{" in its text
\* and a run with "{" and no "}", and says so when there is none; the
\* "Split runs" count of cmd_overview is the number of those paragraphs;
\* the paragraphs and the commands are those of the document, flagged or
\* not.
C18_SplitDetection ==
    /\ SplitsDone =>
           /\ {printed[k][2] : k \in LinesTagged({"Para"})}
                  = {out_paras[k].i : k \in FlaggedParas}
           /\ Cardinality(LinesTagged({"Para"})) = Cardinality(FlaggedParas)
           /\ \A k \in LinesTagged({"Para"}) :
                  printed[k][3] = out_paras[printed[k][2] + 1].runs
           /\ LinesTagged({"No split runs found."}) # {} <=> FlaggedParas = {}
           /\ out_paras = extract_paras(outFile)
    /\ OverviewDone =>
           /\ \E k \in LinesTagged({"Split runs:"}) :
                  printed[k][2] = Cardinality(FlaggedParas)
           /\ out_paras = extract_paras(outFile)
           /\ out_cmds = CommandsOf(out_paras)

\* C18 witness: cmd_splits ran on a document with a paragraph whose command
\* is split over two runs, which it listed, and a paragraph of two runs
\* with braces that each close, which it did not.
C18_Witness ==
    /\ SplitsDone
    /\ Len(out_paras) = 2
    /\ FlaggedParas # {}
    /\ \E k \in 1..Len(out_paras) :
           /\ k \notin FlaggedParas
           /\ Len(out_paras[k].runs) > 1
           /\ HasChar(out_paras[k].text, "{")
    /\ Cardinality(LinesTagged({"Para"})) = 1

\* The raw texts are those of matches that follow one another in the text
\* from position from on.
RECURSIVE InOrder(_, _, _)
InOrder(text, raws, from) ==
    \/ raws = <<>>
    \/ \E i \in from..Len(text) : \E j \in (i + 2)..Len(text) :
           /\ text[i] = "{" /\ text[j] = "}"
           /\ Strip(SubSeq(text, i + 1, j - 1)) = Head(raws)
           /\ InOrder(text, Tail(raws), j + 1)

\* The raw texts of the commands of paragraph i, in the order of the list.
RawsOf(cmds, i) ==
    LET own == SelectSeq(cmds, LAMBDA c : c.para = i)
    IN  [k \in 1..Len(own) |-> own[k].raw]

\* The cells of the tables of a document.
CellCount(file) ==
    LET tbls == SelectSeq(file.body, LAMBDA b : b.kind = "tbl")
    IN  SumOver(LAMBDA t : SumOver(LAMBDA r : Len(tbls[t].rows[r]),
                                   1..Len(tbls[t].rows)),
                1..Len(tbls))

ParagraphThenOccurrence(file, paras, cmds) ==
    /\ \A a, b \in 1..Len(cmds) : a < b => cmds[a].para <= cmds[b].para
    /\ \A k \in 1..Len(cmds) :
           /\ cmds[k].para \in 0..(Len(paras) - 1)
           /\ cmds[k].tbl = paras[cmds[k].para + 1].tbl
    /\ \A p \in 1..Len(paras) :
           /\ paras[p].i = p - 1
           /\ paras[p].text = Concat(paras[p].runs)
           /\ InOrder(paras[p].text, RawsOf(cmds, p - 1), 1)
    /\ Cardinality({p \in 1..Len(paras) : paras[p].tbl}) = CellCount(file)

\* C19: the commands of a document are listed by paragraph, the paragraph
\* indices never decreasing, and within a paragraph from left to right;
\* each carries the index and the in-table flag of its paragraph; the
\* paragraphs are numbered 0, 1, 2, ... in document order and the text of
\* each is its runs joined in order.
C19_ParagraphThenOccurrence ==
    /\ Loaded =>
           /\ ParagraphThenOccurrence(outFile, out_paras, out_cmds)
           /\ ParagraphThenOccurrence(tplFile, tpl_paras, tpl_cmds)
    /\ OverviewDone => ParagraphThenOccurrence(outFile, out_paras, out_cmds)

\* C19 witness: a document whose first paragraph has two commands with
\* different texts and whose second paragraph, in a table cell, has a third.
C19_Witness ==
    /\ Loaded
    /\ Len(out_cmds) = 3
    /\ out_cmds[1].para = 0 /\ out_cmds[2].para = 0 /\ out_cmds[3].para = 1
    /\ out_cmds[1].raw # out_cmds[2].raw
    /\ ~out_cmds[1].tbl /\ out_cmds[3].tbl

\* C20: no run has an issue of the loop-expansion check about a grid that
\* differs from the grid of the first table of its family, and every table
\* of a reported family has the grid of the first.
C20_NoGridIssueInFamily ==
    /\ IssuesOfKind("FOR grid differs") = {}
    /\ AfterLoops =>
           \A f \in 1..Len(families) : \A m \in 1..Len(families[f].indices) :
               families[f].indices[m] \in SameGrid(families[f].indices[1])

\* C20 witness: the loop-expansion check reported a family whose members
\* differ in their rows, and added a cell-count issue but no grid issue.
C20_Witness ==
    /\ AfterLoops
    /\ Len(families) = 1
    /\ \E a, b \in 1..Len(families[1].indices) :
           out_tables[families[1].indices[a] + 1]
               # out_tables[families[1].indices[b] + 1]
    /\ IssuesOfKind("FOR cell count") # {}
    /\ IssuesOfKind("FOR grid differs") = {}

-----------------------------------------------------------------------------
(* Rows with different numbers of cells in a matched pair.                 *)

\* The rows of the overlap of the pair of ti whose cell counts differ.
MismatchedRows(ti) ==
    {ri \in 0..(Overlap(ti) - 1) :
        Len(tpl_tables[ti + 1].rows[ri + 1])
            # Len(out_tables[Partner(ti) + 1].rows[ri + 1])}

\* The issues of the given kinds about row ri of table ti.
IssuesOfRow(kinds, ti, ri) ==
    {k \in IssuesOfTable(kinds, ti) : issues[k].r = ri}

\* C21: in a matched pair, every row of the overlapping range whose
\* template row and output row have different numbers of cells has exactly
\* one cell-count issue, which names the two counts, and no width or
\* gridSpan issue.
C21_CellCountPerRow ==
    AfterTables =>
        \A ti \in Paired : \A ri \in MismatchedRows(ti) :
            /\ Cardinality(IssuesOfRow({"cell count"}, ti, ri)) = 1
            /\ \A k \in IssuesOfRow({"cell count"}, ti, ri) :
                   issues[k].msg
                       = <<Len(tpl_tables[ti + 1].rows[ri + 1]),
                           Len(out_tables[Partner(ti) + 1].rows[ri + 1])>>
            /\ IssuesOfRow({"width", "gridSpan"}, ti, ri) = {}

\* C21 witness: a matched pair had a row with different cell counts, which
\* got its one cell-count issue, and a row with equal cell counts, which got
\* per-cell issues.
C21_Witness ==
    /\ AfterTables
    /\ \E ti \in Paired :
           /\ \E ri \in MismatchedRows(ti) :
                  Cardinality(IssuesOfRow(PairKinds, ti, ri)) = 1
           /\ \E ri \in 0..(Overlap(ti) - 1) :
                  /\ ri \notin MismatchedRows(ti)
                  /\ IssuesOfRow({"width", "gridSpan"}, ti, ri) # {}

-----------------------------------------------------------------------------
(* cmd_loops: the stack of open loops.                                     *)

InLoops == action = "loops" /\ pc \in {"scan", "exit"}

\* The positions of a kind of command among positions lo..hi.
Among(kind, lo, hi) == {k \in lo..hi : out_cmds[k].type = kind}

\* The loop opened at position j is still open when the command at position
\* k > j is reached: no END-FOR after j came when every loop opened after j
\* was closed already.
OpenAt(j, k) ==
    \A m \in (j + 1)..(k - 1) :
        Cardinality(Among("END-FOR", j + 1, m))
            <= Cardinality(Among("FOR", j + 1, m))

\* The positions of the loops open when position k is reached.
OpenLoops(k) == {j \in Among("FOR", 1, k - 1) : OpenAt(j, k)}

\* The position of the innermost of them, 0 when none is open.
Innermost(k) ==
    IF OpenLoops(k) = {} THEN 0
    ELSE CHOOSE j \in OpenLoops(k) : \A i \in OpenLoops(k) : i <= j

\* The positions of a set below n, in increasing order.
Ascending(S, n) == SelectSeq([k \in 1..n |-> k], LAMBDA k : k \in S)

\* The index in loops of the loop opened at position j.
LoopOf(j) == Cardinality(Among("FOR", 1, j))

\* C22: while cmd_loops scans the commands and when it is done, loops has
\* one entry for every FOR processed, in input order, with the paragraph
\* and the variable of its command; the stack is the loops that are open,
\* innermost last, an END-FOR having closed the innermost open loop
\* whatever it names and nothing when none was open; and the fields of a
\* loop are the field commands that came while it was the innermost open
\* loop, in input order, so that a field that came when no loop was open is
\* in no loop and no field is in a loop that was closed before it came.
C22_StackOfOpenLoops ==
    InLoops =>
        LET fors == Ascending(Among("FOR", 1, pos), pos)
        IN  /\ Len(loops) = Len(fors)
            /\ \A g \in 1..Len(fors) :
                   /\ loops[g].para = out_cmds[fors[g]].para
                   /\ loops[g].var = Split(out_cmds[fors[g]].raw)[2]
                   /\ loops[g].fields =
                          LET own == Ascending(
                                  {k \in Among("field", 1, pos) :
                                      Innermost(k) = fors[g]}, pos)
                          IN  [f \in 1..Len(own) |-> out_cmds[own[f]].raw]
            /\ stack =
                   LET open == Ascending(OpenLoops(pos + 1), pos)
                   IN  [d \in 1..Len(open) |-> LoopOf(open[d])]

\* C22 witness: a loop was opened inside another and closed by an END-FOR
\* that names the variable of the outer loop; the field that came next is
\* in the outer loop and the closed inner loop has none.
C22_Witness ==
    /\ action = "loops" /\ pc = "exit"
    /\ Len(loops) = 2
    /\ Len(loops[1].fields) = 1 /\ loops[2].fields = <<>>
    /\ loops[1].var # loops[2].var
    /\ \E k \in Among("field", 1, pos) :
           /\ Innermost(k) = 1
           /\ \E e \in Among("END-FOR", 1, k - 1) :
                  /\ Innermost(e) = 2
                  /\ Split(out_cmds[e].raw)[2] = loops[1].var

-----------------------------------------------------------------------------
(* merge_split_runs, clone_row_as_command and the loop tables.             *)

\* Three consecutive runs from position k whose stripped texts are "{", a
\* non-empty text without a space, and "}".
SplitFieldAt(runs, k) ==
    /\ k + 2 <= Len(runs)
    /\ Strip(RunText(runs[k])) = sOpen
    /\ Strip(RunText(runs[k + 1])) # <<>>
    /\ ~HasChar(Strip(RunText(runs[k + 1])), " ")
    /\ Strip(RunText(runs[k + 2])) = sClose

HasSplitField(runs) == \E k \in 1..Len(runs) : SplitFieldAt(runs, k)

TotalRuns(paras) == Sum([p \in 1..Len(paras) |-> Len(paras[p])])

MergeReturned == tagIn.fn = "merge_split_runs" /\ pc = "merged"

\* C23: after merge_split_runs returns, no paragraph has three consecutive
\* runs whose stripped texts are "{", a non-empty text without a space and
\* "}", a second call performs zero merges, and the counts returned add up
\* to the merges done, each of which removed two runs.
C23_NoSplitFieldLeft ==
    MergeReturned =>
        /\ \A p \in 1..Len(body_paras) : ~HasSplitField(body_paras[p])
        /\ Len(returned) = 2 => returned[2] = 0
        /\ 2 * Sum(returned) = TotalRuns(tagIn.body) - TotalRuns(body_paras)

\* What does hold of merge_split_runs: the count is the number of merges,
\* and a merge removes the two runs after position i and leaves
\* "{" + name + "}" in the run at position i.
C23_MergeEffect ==
    [][merge_count' # merge_count /\ pc = "runs" =>
          LET old == body_paras[para_i]
              new == body_paras'[para_i]
              k == scan_i + 1
          IN  /\ merge_count' = merge_count + 1
              /\ SplitFieldAt(old, k)
              /\ Len(new) = Len(old) - 2
              /\ new[k].id = old[k].id
              /\ new[k].t = sOpen \o Strip(RunText(old[k + 1])) \o sClose
              /\ \A j \in 1..Len(new) :
                    j # k => new[j] = old[IF j < k THEN j ELSE j + 2]
              /\ \A p \in 1..Len(body_paras) :
                    p # para_i => body_paras'[p] = body_paras[p]]_vars

\* The counts returned are the merges done.
C23_CountIsMerges ==
    MergeReturned =>
        2 * Sum(returned) = TotalRuns(tagIn.body) - TotalRuns(body_paras)

\* merge_split_runs returns on every body, under weak fairness of its steps.
FairSpecTag == SpecTag /\ WF_vars(NextTag)

C23_Terminates ==
    (tagIn.fn = "merge_split_runs" /\ pc = "start") ~> (pc = "merged")

\* A split field that is left after the return has a merged field between
\* its braces: the scan does not go back after the merge at position i.
C23_OnlyAroundMergedField ==
    MergeReturned =>
        \A p \in 1..Len(body_paras) : \A k \in 1..Len(body_paras[p]) :
            SplitFieldAt(body_paras[p], k) =>
                /\ Len(body_paras[p][k + 1].t) >= 3
                /\ Head(body_paras[p][k + 1].t) = "{"

Cloned == tagIn.fn = "clone_row_as_command" /\ pc = "cloned"

\* The text that set_cell_text does not reach: the cell has no paragraph,
\* or its first paragraph holds text outside its own runs.
HasLinkText(para) ==
    \E k \in 1..Len(para) :
        para[k].kind # "r" /\ Get(para[k].t, <<>>) # <<>>

Reachable(cell) == cell.paras # <<>> /\ ~HasLinkText(cell.paras[1])

\* C24: the row that clone_row_as_command returns has as many cells as the
\* source row, each with the properties of the source cell; the text of
\* its first cell is the command text and the text of every other cell is
\* empty; and the source row is as it was.
C24_CloneIsCommandRow ==
    Cloned =>
        LET row == tagIn.row
            new == new_row[1]
        IN  /\ Len(new.cells) = Len(row.cells)
            /\ \A i \in 1..Len(row.cells) :
                  /\ new.cells[i].tcPr = row.cells[i].tcPr
                  /\ get_cell_text(new.cells[i]) =
                         IF i = 1 THEN tagIn.command_text ELSE <<>>
            /\ t_children = <<row>>

\* What does hold of clone_row_as_command: the cells and their properties
\* are those of the source row, which is as it was; the texts are as
\* stated in the cells that set_cell_text reaches; in the others the first
\* cell has no text and the text of a hyperlink stays.
C24_CloneFrame ==
    Cloned =>
        LET row == tagIn.row
            new == new_row[1]
        IN  /\ Len(new.cells) = Len(row.cells)
            /\ new.id # row.id
            /\ \A i \in 1..Len(row.cells) :
                  /\ new.cells[i].tcPr = row.cells[i].tcPr
                  /\ Reachable(row.cells[i]) =>
                        get_cell_text(new.cells[i]) =
                            IF i = 1 THEN tagIn.command_text ELSE <<>>
                  /\ row.cells[i].paras = <<>> => new.cells[i] = row.cells[i]
            /\ t_children = <<row>>

TableTagged == tagIn.fn \in LoopTables /\ pc = "tagged"

\* The table had more rows than header rows, so that it was restructured.
Restructured ==
    TableTagged /\ Len(get_rows(tagIn.table)) > HeaderRows(tagIn.fn)

ElementIds(children) == {children[k].id : k \in 1..Len(children)}

NotRows(children) ==
    LET NoRow(c) == c.kind # "tr"
    IN  SelectSeq(children, NoRow)

\* C25: after a loop table with more rows than header rows is
\* restructured, its rows are the original header rows, then the FOR row
\* (a new row, the clone of the original data row with the FOR command),
\* then the data row (the original row after the header rows), then the
\* END-FOR row (another new row, the clone with the END-FOR command), and
\* no other row; the other children of the table are as they were.
C25_ThreeRowLoop ==
    Restructured =>
        LET h == HeaderRows(tagIn.fn)
            old == get_rows(tagIn.table)
            rows == get_rows(t_children)
        IN  /\ Len(rows) = h + 3
            /\ \A j \in 1..h : rows[j] = old[j]
            /\ rows[h + 1].id = tagged.for_row
            /\ rows[h + 1].id \notin ElementIds(tagIn.table)
            /\ rows[h + 1].cells =
                   clone_row_as_command(old[h + 1],
                                        ForCommand(tagIn.fn)).cells
            /\ rows[h + 2].id = old[h + 1].id
            /\ rows[h + 2].id = tagged.data_row
            /\ rows[h + 3].id = tagged.endfor_row
            /\ rows[h + 3].id \notin ElementIds(tagIn.table)
            /\ rows[h + 3].id # rows[h + 1].id
            /\ rows[h + 3].cells =
                   clone_row_as_command(old[h + 1],
                                        EndForCommand(tagIn.fn)).cells
            /\ NotRows(t_children) = NotRows(tagIn.table)

\* T55 with two rows after the data row and two children before the rows.
C25_Witness ==
    /\ Restructured
    /\ tagIn.fn = "T55"
    /\ Len(tagIn.table) = 7
    /\ Len(get_rows(tagIn.table)) = 5
    /\ Len(t_children) = 8
    /\ get_cell_text(get_rows(t_children)[5].cells[1]) = DataT55[1]

====
